---- MODULE Spec2Model ----
(***************************************************************************)
(* A model of the query strategies of scikit-activeml:                     *)
(*   - FixedBudget            (stream/budget_manager/_fixed_budget.py)     *)
(*   - Badge                  (pool/_badge.py)                             *)
(*   - ForgettingWrapper, BaggingDelaySimulationWrapper,                   *)
(*     FuzzyDelaySimulationWrapper                                         *)
(*                            (stream/verification_latency/                *)
(*                             _delay_wrapper.py)                          *)
(* Real numbers are exact rationals [n |-> numerator, d |-> denominator].  *)
(***************************************************************************)
EXTENDS Integers, Sequences, FiniteSets, TLC

\* ------------------------------------------------------------------------
\* Bounds of the model
\* ------------------------------------------------------------------------
\* budgets and utilities are multiples of 1/Den
Den == 4
\* longest utilities vector handed to FixedBudget.sample in one call
MaxUtil == 2
\* cap on observed_instances (the counter is unbounded in the code)
MaxObserved == 4
\* class probabilities of Badge's classifier are multiples of 1/PDen
PDen == 2
\* most samples (labeled and unlabeled) handed to Badge.query
MaxSamples == 3
\* largest batch_size asked of Badge.query
MaxBatch == 3
\* most candidates handed to one query of a delay wrapper
MaxCand == 2
\* cap on the values one wrapper draws from random_state_ (unbounded in
\* the code)
MaxDraws == 4

\* ------------------------------------------------------------------------
\* Rational arithmetic
\* ------------------------------------------------------------------------
Rat(n, d) == [n |-> n, d |-> d]

RatGeq(a, b) == a.n * b.d >= b.n * a.d

RatGt(a, b) == a.n * b.d > b.n * a.d

RatEq(a, b) == a.n * b.d = b.n * a.d

RatOneMinus(a) == Rat(a.d - a.n, a.d)

Budgets == {Rat(k, Den) : k \in 0..Den}

Utilities == {Rat(k, Den) : k \in 0..Den}

SeqsUpTo(S, n) == UNION {[1..m -> S] : m \in 0..n}

RECURSIVE SumSeq(_)
SumSeq(s) == IF s = <<>> THEN 0 ELSE Head(s) + SumSeq(Tail(s))

\* np.where(mask)[0]: the positions (0-based) where mask holds, ascending
RECURSIVE Where(_, _)
Where(mask, from) ==
    IF from > Len(mask) THEN <<>>
    ELSE IF mask[from] THEN <<from - 1>> \o Where(mask, from + 1)
         ELSE Where(mask, from + 1)

Range(s) == {s[k] : k \in 1..Len(s)}

\* ------------------------------------------------------------------------
\* State
\* ------------------------------------------------------------------------
VARIABLES
    budget,              \* FixedBudget.budget
    observed_instances,  \* FixedBudget.observed_instances
    sampled_instances,   \* FixedBudget.sampled_instances
    bm_call,             \* the last FixedBudget.sample call: arguments, state before, result
    badge,               \* Badge.query: its arguments, locals and position
    config,              \* a delay wrapper's constructor parameters (w_train, K, clf, ...)
    base_query_strategy_,\* whether the wrapper has created base_query_strategy_; the
                         \* budget manager of that strategy is the FixedBudget above
    clf_,                \* BaggingDelaySimulationWrapper.clf_
    random_state_,       \* the wrapper's random_state_: the number of draws consumed
    dq,                  \* a delay wrapper's query/update: arguments, locals, position
    twin                 \* two wrappers built with the same parameters and given the
                         \* same calls: their fields, and what the last call returned

budgetVars == <<budget, observed_instances, sampled_instances, bm_call>>

delayVars == <<config, base_query_strategy_, clf_, random_state_, dq>>

vars == <<budget, observed_instances, sampled_instances, bm_call, badge,
          config, base_query_strategy_, clf_, random_state_, dq, twin>>

NoCall == [op |-> "none"]

\* the value of the variables of a component the specification leaves out
Unused == [pc |-> "unused"]

\* ------------------------------------------------------------------------
\* FixedBudget
\* ------------------------------------------------------------------------
\* available_budget = observed_instances * budget - sampled_instances >= 0
is_budget_left_offByOne(obs, smp, b) == obs * b.n - smp * b.d >= 0

\* available_budget = observed_instances * budget - sampled_instances >= 1
is_budget_left(obs, smp, b) == obs * b.n - smp * b.d >= b.d

\* sampled[i] = budget_left[i] and (utility >= 1 - self.budget)
utility_sufficient(utility, b) == RatGeq(utility, RatOneMinus(b))

\* the body of the for loop of sample, from position i (1-based) on:
\* counts the instance as observed, decides it, counts it when sampled
RECURSIVE sample_loop(_, _, _, _, _, _, _)
sample_loop(utilities, i, obs, smp, b, sampled, budget_left) ==
    IF i > Len(utilities)
    THEN [observed |-> obs, sampled_n |-> smp,
          sampled |-> sampled, budget_left |-> budget_left]
    ELSE LET obs1 == obs + 1
             left == is_budget_left(obs1, smp, b)
             take == left /\ utility_sufficient(utilities[i], b)
         IN sample_loop(utilities, i + 1, obs1,
                        smp + (IF take THEN 1 ELSE 0), b,
                        Append(sampled, take), Append(budget_left, left))

\* sample without the reset of the counters under simulate
sample_noReset(obs, smp, b, utilities, simulate) ==
    LET r == sample_loop(utilities, 1, obs, smp, b, <<>>, <<>>)
    IN [observed |-> r.observed,
        sampled_n |-> r.sampled_n,
        sampled |-> r.sampled,
        budget_left |-> r.budget_left,
        sampled_indices |-> Where(r.sampled, 1)]

\* FixedBudget.sample: the counters after the call and what it returns
sample(obs, smp, b, utilities, simulate) ==
    LET r == sample_loop(utilities, 1, obs, smp, b, <<>>, <<>>)
    IN [observed |-> IF simulate THEN obs ELSE r.observed,
        sampled_n |-> IF simulate THEN smp ELSE r.sampled_n,
        sampled |-> r.sampled,
        budget_left |-> r.budget_left,
        sampled_indices |-> Where(r.sampled, 1)]

\* FixedBudget.__init__
InitBudget ==
    /\ budget \in Budgets
    /\ observed_instances = 0
    /\ sampled_instances = 0
    /\ bm_call = NoCall
    /\ badge = Unused
    /\ config = Unused
    /\ base_query_strategy_ = FALSE
    /\ clf_ = Unused
    /\ random_state_ = 0
    /\ dq = Unused
    /\ twin = Unused

\* one call of FixedBudget.sample(utilities, simulate)
Sample(utilities, simulate) ==
    /\ observed_instances + Len(utilities) <= MaxObserved
    /\ LET r == sample(observed_instances, sampled_instances, budget,
                       utilities, simulate)
       IN /\ observed_instances' = r.observed
          /\ sampled_instances' = r.sampled_n
          /\ bm_call' = [op |-> "sample",
                         utilities |-> utilities,
                         simulate |-> simulate,
                         init_observed_instances |-> observed_instances,
                         init_sampled_instances |-> sampled_instances,
                         sampled |-> r.sampled,
                         budget_left |-> r.budget_left,
                         sampled_indices |-> r.sampled_indices]
    /\ UNCHANGED <<twin, budget, badge, delayVars>>

NextBudget ==
    \E utilities \in SeqsUpTo(Utilities, MaxUtil), simulate \in BOOLEAN :
        Sample(utilities, simulate)

\* ------------------------------------------------------------------------
\* Badge
\* ------------------------------------------------------------------------
\* The classifier is a black box: its outputs on the unlabeled samples, the
\* largest class probability p_max (a multiple of 1/PDen, at least 1/2 with
\* two classes) and the one-dimensional embedding X_emb, are inputs of query.
PMaxNums == {k \in 1..PDen : 2 * k >= PDen}

XEmbValues == {1, 4}

Abs(x) == IF x < 0 THEN -x ELSE x

Min(a, b) == IF a <= b THEN a ELSE b

\* g_x = (p_max - 1) * X_emb, as a numerator over PDen
gradient_embedding(p_max, X_emb) ==
    [j \in 1..Len(p_max) |-> (p_max[j] - PDen) * X_emb[j]]

\* unlabeled_indices(y): the 0-based positions of the missing labels
unlabeled_indices(y) == Where([j \in 1..Len(y) |-> y[j] = "missing"], 1)

\* d_latest=None
None == [num |-> <<>>, den |-> 0]

\* np.nan
NaN == [n |-> 0, d |-> 0]

\* np.ones(shape=len(g_x)) as a vector of fractions num[j] / den
Ones(n) == [num |-> [j \in 1..n |-> 1], den |-> 1]

\* pairwise_distances_argmin_min(X=g_x, Y=g_x[query_indicies])[1]: for every
\* point the distance to the nearest of the chosen points (numerator over PDen)
min_distance(g_x, query_indicies, j) ==
    LET ds == {Abs(g_x[j] - g_x[q + 1]) : q \in Range(query_indicies)}
    IN CHOOSE d \in ds : \A e \in ds : d <= e

\* _d_probability as if d_latest were never given
d_probability_noCache(g_x, query_indicies, d_latest) ==
    LET n == Len(g_x) IN
    IF Len(query_indicies) = 0
    THEN [probas |-> Ones(n), is_randomized |-> TRUE, D2 |-> <<>>]
    ELSE LET m == [j \in 1..n |-> min_distance(g_x, query_indicies, j)]
             D2 == [j \in 1..n |-> m[j] * m[j]]
             D2_sum == SumSeq(D2)
         IN IF D2_sum = 0
            THEN [probas |-> Ones(n), is_randomized |-> TRUE, D2 |-> D2]
            ELSE [probas |-> [num |-> D2, den |-> D2_sum],
                  is_randomized |-> FALSE, D2 |-> D2]

\* _d_probability without the mode for a zero sum and without the chosen
\* points: all ones, flagged randomized
d_probability_allOnes(g_x, query_indicies, d_latest) ==
    [probas |-> Ones(Len(g_x)), is_randomized |-> TRUE, D2 |-> <<>>]

\* _d_probability(g_x, query_indicies, d_latest), with the squares D2 it
\* computed beside the two values it returns. d_latest is None or a
\* vector of fractions. D = min(d_latest, D) compares num[j]/den with
\* D[j]/PDen, i.e. num[j]*PDen with D[j]*den over the denominator den*PDen,
\* which cancels in D2 / D2_sum.
d_probability(g_x, query_indicies, d_latest) ==
    LET n == Len(g_x) IN
    IF Len(query_indicies) = 0
    THEN [probas |-> Ones(n), is_randomized |-> TRUE, D2 |-> <<>>]
    ELSE LET D == [j \in 1..n |-> min_distance(g_x, query_indicies, j)]
             m == IF d_latest = None THEN D
                  ELSE [j \in 1..n |->
                          Min(d_latest.num[j] * PDen, D[j] * d_latest.den)]
             D2 == [j \in 1..n |-> m[j] * m[j]]
             D2_sum == SumSeq(D2)
         IN IF D2_sum = 0
            THEN [probas |-> Ones(n), is_randomized |-> TRUE, D2 |-> D2]
            ELSE [probas |-> [num |-> D2, den |-> D2_sum],
                  is_randomized |-> FALSE, D2 |-> D2]

\* a draw that is uniform over all points in both modes
draw_idx_in_unlbld_uniform(d_probas, is_randomized) ==
    0..(Len(d_probas.num) - 1)

\* the values idx_in_unlbld can take (0-based): random_state_.choice(len(g_x))
\* when randomized, else a draw of rv_discrete over the entries of non-zero
\* probability
draw_idx_in_unlbld(d_probas, is_randomized) ==
    IF is_randomized
    THEN 0..(Len(d_probas.num) - 1)
    ELSE {j \in 0..(Len(d_probas.num) - 1) : d_probas.num[j + 1] > 0}

\* utilities[i, unlbld_mapping] = d_probas; utilities[i, query_indicies] = nan
utilities_row(row, unlbld_mapping, d_probas, query_indicies) ==
    [c \in 1..Len(row) |->
        IF (c - 1) \in Range(query_indicies) THEN NaN
        ELSE IF \E j \in 1..Len(unlbld_mapping) : unlbld_mapping[j] = c - 1
             THEN LET j == CHOOSE j \in 1..Len(unlbld_mapping) :
                                unlbld_mapping[j] = c - 1
                  IN Rat(d_probas.num[j], d_probas.den)
             ELSE row[c]]

\* no query of Badge has been made; the budget manager is not part of it
InitBadge ==
    /\ badge = [pc |-> "idle"]
    /\ budget = Rat(0, 1)
    /\ observed_instances = 0
    /\ sampled_instances = 0
    /\ bm_call = NoCall
    /\ config = Unused
    /\ base_query_strategy_ = FALSE
    /\ clf_ = Unused
    /\ random_state_ = 0
    /\ dq = Unused
    /\ twin = Unused

\* query up to the sampling loop: validation, the unlabeled candidates
\* (candidates=None), the embedding and the all-NaN utilities. batch_size is
\* what _validate_data returns: at most the number of candidates.
BadgeQuery(y, p_max, X_emb, batch_size) ==
    /\ badge.pc = "idle"
    /\ LET unlbld_mapping == unlabeled_indices(y) IN
       /\ Len(unlbld_mapping) >= 1
       /\ Len(p_max) = Len(unlbld_mapping)
       /\ Len(X_emb) = Len(unlbld_mapping)
       /\ batch_size \in 1..Len(unlbld_mapping)
       /\ badge' = [pc |-> "loop",
                    y |-> y,
                    unlbld_mapping |-> unlbld_mapping,
                    g_x |-> gradient_embedding(p_max, X_emb),
                    batch_size |-> batch_size,
                    utilities |-> [r \in 1..batch_size |->
                                     [c \in 1..Len(y) |-> NaN]],
                    i |-> 0,
                    D_p |-> <<>>,
                    D2 |-> <<>>,
                    randomized |-> <<>>,
                    drawn_from |-> <<>>,
                    idx_in_unlbld |-> -1,
                    query_indicies |-> <<>>]
    /\ UNCHANGED <<twin, budgetVars, delayVars>>

\* one iteration of the sampling loop of query (for i in range(batch_size))
BadgeRound ==
    /\ badge.pc = "loop"
    /\ badge.i < badge.batch_size
    /\ LET i == badge.i
           r == IF i = 0
                THEN d_probability(badge.g_x, <<>>, None)
                ELSE d_probability(badge.g_x, <<badge.idx_in_unlbld>>,
                                   badge.D_p[i])
           row == utilities_row(badge.utilities[i + 1], badge.unlbld_mapping,
                                r.probas, badge.query_indicies)
           support == draw_idx_in_unlbld(r.probas, r.is_randomized)
       IN \E idx_in_unlbld \in support :
            badge' = [badge EXCEPT
                        !.D_p = Append(@, r.probas),
                        !.D2 = Append(@, r.D2),
                        !.randomized = Append(@, r.is_randomized),
                        !.drawn_from = Append(@, support),
                        !.utilities = [@ EXCEPT ![i + 1] = row],
                        !.idx_in_unlbld = idx_in_unlbld,
                        !.query_indicies =
                            Append(@, badge.unlbld_mapping[idx_in_unlbld + 1]),
                        !.i = i + 1]
    /\ UNCHANGED <<twin, budgetVars, delayVars>>

\* the return of query
BadgeReturn ==
    /\ badge.pc = "loop"
    /\ badge.i = badge.batch_size
    /\ badge' = [badge EXCEPT !.pc = "done"]
    /\ UNCHANGED <<twin, budgetVars, delayVars>>

\* the caller is ready for its next query; a query keeps nothing of the
\* one before it
BadgeNextCall ==
    /\ badge.pc = "done"
    /\ badge' = [pc |-> "idle"]
    /\ UNCHANGED <<twin, budgetVars, delayVars>>

\* ------------------------------------------------------------------------
\* Delay wrappers: the arguments of query
\* ------------------------------------------------------------------------
\* Times are integers; the model's inputs are even, so that the midpoint
\* (max + tX_cand) / 2 of two input times is an integer as well.
Classes == {0, 1}

MISSING_LABEL == -1

\* the numbers of training instances handed to a wrapper's query
RowCounts == 1..2

\* (acquisitions[j], y[j]) of a training instance
RowLabelings == {<<FALSE, MISSING_LABEL>>, <<TRUE, 0>>, <<TRUE, 1>>}

\* ty - tX of an instance or a candidate
LabelDelays == {0, 4}

\* (X, y, tX, ty, acquisitions): instance j arrives at time 2 * (j - 1)
Datasets ==
    UNION {{[X |-> [j \in 1..n |-> j],
             y |-> [j \in 1..n |-> lab[j][2]],
             tX |-> [j \in 1..n |-> 2 * (j - 1)],
             ty |-> [j \in 1..n |-> 2 * (j - 1) + del[j]],
             acquisitions |-> [j \in 1..n |-> lab[j][1]]] :
                lab \in [1..n -> RowLabelings], del \in [1..n -> LabelDelays]} :
           n \in RowCounts}

\* sample_weight=None
NoWeight == [given |-> FALSE, w |-> <<>>]

\* sample_weight: None, or one weight per training instance
SampleWeights(n) == {NoWeight, [given |-> TRUE, w |-> [j \in 1..n |-> j]]}

\* (X_cand, tX_cand, ty_cand): candidate i (0-based) arrives at time 4 + 2 * i
Candidates ==
    UNION {{[X_cand |-> [i \in 1..m |-> i - 1],
             tX_cand |-> [i \in 1..m |-> 4 + 2 * (i - 1)],
             ty_cand |-> [i \in 1..m |-> 4 + 2 * (i - 1) + del[i]]] :
                del \in [1..m -> LabelDelays]} :
           m \in 1..MaxCand}

\* arr[mask]
select(arr, mask) ==
    LET idx == Where(mask, 1) IN [k \in 1..Len(idx) |-> arr[idx[k] + 1]]

\* sample_weight[mask], None staying None
select_weight(sample_weight, mask) ==
    IF sample_weight.given
    THEN [given |-> TRUE, w |-> select(sample_weight.w, mask)]
    ELSE NoWeight

\* the indicator vector of a list of indices:
\* sampled = np.zeros(n); sampled[sampled_indices] = 1
indicator(n, sampled_indices) ==
    [k \in 1..n |-> IF (k - 1) \in Range(sampled_indices) THEN 1 ELSE 0]

\* ------------------------------------------------------------------------
\* The wrapped base query strategy (a stream strategy with a FixedBudget)
\* ------------------------------------------------------------------------
\* The utility the base strategy gives one candidate on a training view: a
\* function of the candidate and of every array of the view.
base_utility(c) ==
    LET term(j) ==
            (IF c.sample_weight.given THEN c.sample_weight.w[j] ELSE 1)
            * (c.X[j] + c.tX[j] + c.ty[j] + c.y[j] + 2
               + (IF c.acquisitions[j] THEN 1 ELSE 0))
        terms == [j \in 1..Len(c.X) |-> term(j)]
    IN Rat((c.X_cand + c.tX_cand + c.ty_cand + SumSeq(terms)) % (Den + 1), Den)

\* base_query_strategy_.query(X_cand=<one candidate>, ..., simulate=...):
\* the utility, the budget manager's decision and its counters afterwards
base_query(obs, smp, b, c) ==
    LET u == base_utility(c)
        r == sample(obs, smp, b, <<u>>, c.simulate)
    IN [observed |-> r.observed,
        sampled_n |-> r.sampled_n,
        sampled_indices |-> r.sampled_indices,
        utilities |-> <<u>>]

\* base_query_strategy_.update(X_cand, sampled): the budget manager counts
\* every candidate as observed and every sampled one as sampled
base_update(obs, smp, sampled) ==
    [observed |-> obs + Len(sampled), sampled_n |-> smp + SumSeq(sampled)]

\* ------------------------------------------------------------------------
\* ForgettingWrapper
\* ------------------------------------------------------------------------
WTrains == {0, 2, 6}

\* (type, value) of a w_train that is not a non-negative number: a negative
\* int, a str and None (the value of a str or of None is not looked at)
OtherWTrains == {<<"int", -2>>, <<"str", 0>>, <<"NoneType", 0>>}

\* the parameters of the constructor
ForgettingConfigs ==
    {[wrapper |-> "ForgettingWrapper", w_type |-> "int", w_train |-> w] :
        w \in WTrains}
    \cup {[wrapper |-> "ForgettingWrapper", w_type |-> o[1], w_train |-> o[2]] :
             o \in OtherWTrains}

\* _validate_w_train: the error it raises, if any
validate_w_train(w_type, w_train) ==
    IF w_type # "NoneType"
    THEN IF w_type \notin {"float", "int"} THEN "TypeError"
         ELSE IF w_train < 0 THEN "ValueError"
         ELSE "none"
    ELSE "none"

\* ty_cand_current - self.w_train: the error the subtraction raises, if any
window_raises(w_type) ==
    IF w_type = "NoneType" THEN "TypeError" ELSE "none"

\* the budgets of the wrapped strategy's budget manager
DelayBudgets == {Rat(Den \div 2, Den), Rat(Den, Den)}

\* tX_in_A_n = tX >= (ty_cand_current - self.w_train), with > for >=
window_mask_strict(tX, ty_cand_current, w_train) ==
    [j \in 1..Len(tX) |-> tX[j] > ty_cand_current - w_train]

\* tX_in_A_n = tX >= (ty_cand_current - self.w_train)
window_mask(tX, ty_cand_current, w_train) ==
    [j \in 1..Len(tX) |-> tX[j] >= ty_cand_current - w_train]

\* training data whose arrival times do not fit the rows of X: tX and ty
\* both too short, and ty shorter than tX
MisshapenDatasets ==
    {[X |-> <<1, 2>>, y |-> <<0, 1>>, tX |-> <<0>>, ty |-> <<0>>,
      acquisitions |-> <<TRUE, TRUE>>],
     [X |-> <<1, 2>>, y |-> <<0, 1>>, tX |-> <<0, 2>>, ty |-> <<0>>,
      acquisitions |-> <<TRUE, TRUE>>]}

\* candidates whose arrival times do not fit the rows of X_cand: tX_cand and
\* ty_cand both too short, both too long, and ty_cand shorter than tX_cand
MisshapenCandidates ==
    {[X_cand |-> <<0, 1>>, tX_cand |-> <<4>>, ty_cand |-> <<4>>],
     [X_cand |-> <<0>>, tX_cand |-> <<4, 6>>, ty_cand |-> <<4, 6>>],
     [X_cand |-> <<0, 1>>, tX_cand |-> <<4, 6>>, ty_cand |-> <<4>>]}

\* the checks of the base class's _validate_data on the lengths of the
\* arrays: the error check_consistent_length raises, if any
validate_lengths(a) ==
    IF a.sample_weight.given /\ Len(a.sample_weight.w) # Len(a.y)
    THEN "ValueError"
    ELSE IF Len(a.X) # Len(a.y) THEN "ValueError"
    ELSE IF Len(a.tX) # Len(a.ty) THEN "ValueError"
    ELSE IF Len(a.tX_cand) # Len(a.ty_cand) THEN "ValueError"
    ELSE "none"

\* the iterations of the loop over zip(tX_cand, ty_cand, X_cand)
zipped(a) == Min(Min(Len(a.tX_cand), Len(a.ty_cand)), Len(a.X_cand))

\* X[tX_in_A_n, :], y[tX_in_A_n], ... : a boolean index has to be as long as
\* the array it selects from
mask_fits(a) ==
    /\ Len(a.tX) = Len(a.X)
    /\ Len(a.tX) = Len(a.y)
    /\ Len(a.tX) = Len(a.ty)
    /\ Len(a.tX) = Len(a.acquisitions)
    /\ a.sample_weight.given => Len(a.tX) = Len(a.sample_weight.w)

\* the arguments of the base strategy's query for candidate i (1-based)
forgetting_call(a, w_train, i) ==
    LET tX_in_A_n == window_mask(a.tX, a.ty_cand[i], w_train)
    IN [X_cand |-> a.X_cand[i],
        X |-> select(a.X, tX_in_A_n),
        y |-> select(a.y, tX_in_A_n),
        tX |-> select(a.tX, tX_in_A_n),
        ty |-> select(a.ty, tX_in_A_n),
        tX_cand |-> a.tX_cand[i],
        ty_cand |-> a.ty_cand[i],
        acquisitions |-> select(a.acquisitions, tX_in_A_n),
        sample_weight |-> select_weight(a.sample_weight, tX_in_A_n),
        simulate |-> a.simulate]

\* the loop over the candidates of ForgettingWrapper.query from candidate i on
RECURSIVE forgetting_loop(_, _, _, _, _, _, _)
forgetting_loop(a, w_train, b, i, st, sampled_indices, utilities) ==
    IF i > zipped(a)
    THEN [observed |-> st.observed, sampled_n |-> st.sampled_n,
          calls |-> st.calls, raised |-> "none",
          sampled_indices |-> sampled_indices, utilities |-> utilities]
    ELSE IF ~mask_fits(a)
    THEN [observed |-> st.observed, sampled_n |-> st.sampled_n,
          calls |-> st.calls, raised |-> "IndexError",
          sampled_indices |-> sampled_indices, utilities |-> utilities]
    ELSE LET c == forgetting_call(a, w_train, i)
             r == base_query(st.observed, st.sampled_n, b, c)
         IN forgetting_loop(a, w_train, b, i + 1,
                [observed |-> r.observed, sampled_n |-> r.sampled_n,
                 calls |-> Append(st.calls, c)],
                IF Len(r.sampled_indices) > 0
                THEN Append(sampled_indices, i - 1) ELSE sampled_indices,
                Append(utilities, r.utilities))

\* ForgettingWrapper.query after _validate_data
forgetting_query(obs, smp, b, w_train, a) ==
    forgetting_loop(a, w_train, b, 1,
                    [observed |-> obs, sampled_n |-> smp, calls |-> <<>>],
                    <<>>, <<>>)

\* the arguments of a wrapper's query as one record
query_args(data, sample_weight, cands, simulate) ==
    [X |-> data.X, y |-> data.y, tX |-> data.tX, ty |-> data.ty,
     acquisitions |-> data.acquisitions, sample_weight |-> sample_weight,
     X_cand |-> cands.X_cand, tX_cand |-> cands.tX_cand,
     ty_cand |-> cands.ty_cand, simulate |-> simulate]

\* the persisted fields of a wrapper and of its base strategy
persisted ==
    [observed_instances |-> observed_instances,
     sampled_instances |-> sampled_instances,
     base_query_strategy_ |-> base_query_strategy_,
     clf_ |-> clf_,
     random_state_ |-> random_state_]

\* ForgettingWrapper.__init__; the wrapped strategy's budget manager is new
InitForgetting ==
    /\ config \in ForgettingConfigs
    /\ budget \in DelayBudgets
    /\ observed_instances = 0
    /\ sampled_instances = 0
    /\ bm_call = NoCall
    /\ badge = Unused
    /\ base_query_strategy_ = FALSE
    /\ clf_ = Unused
    /\ random_state_ = 0
    /\ dq = [pc |-> "idle"]
    /\ twin = Unused

\* ForgettingWrapper.query
ForgettingQuery(data, sample_weight, cands, simulate) ==
    /\ dq.pc = "idle"
    /\ observed_instances + Len(cands.X_cand) <= MaxObserved
    /\ LET a == query_args(data, sample_weight, cands, simulate)
           lengths == validate_lengths(a)
           invalid == IF lengths # "none" THEN lengths
                      ELSE validate_w_train(config.w_type, config.w_train)
           r == forgetting_query(observed_instances, sampled_instances,
                                 budget, config.w_train, a)
       IN IF invalid # "none"
          THEN /\ UNCHANGED <<observed_instances, sampled_instances>>
               /\ dq' = [pc |-> "done", op |-> "query", args |-> a,
                         before |-> persisted,
                         validated |-> FALSE, raised |-> invalid,
                         calls |-> <<>>, sampled_indices |-> <<>>,
                         utilities |-> <<>>]
          ELSE IF window_raises(config.w_type) # "none"
          THEN /\ UNCHANGED <<observed_instances, sampled_instances>>
               /\ dq' = [pc |-> "done", op |-> "query", args |-> a,
                         before |-> persisted,
                         validated |-> TRUE,
                         raised |-> window_raises(config.w_type),
                         calls |-> <<>>, sampled_indices |-> <<>>,
                         utilities |-> <<>>]
          ELSE /\ observed_instances' = r.observed
               /\ sampled_instances' = r.sampled_n
               /\ dq' = [pc |-> "done", op |-> "query", args |-> a,
                         before |-> persisted,
                         validated |-> TRUE, raised |-> r.raised,
                         calls |-> r.calls,
                         sampled_indices |-> r.sampled_indices,
                         utilities |-> r.utilities]
    /\ base_query_strategy_' = TRUE
    /\ UNCHANGED <<twin, budget, bm_call, badge, config, clf_, random_state_>>

\* ForgettingWrapper.update(X_cand, sampled)
ForgettingUpdate(sampled) ==
    /\ dq.pc = "idle"
    /\ observed_instances + Len(sampled) <= MaxObserved
    /\ LET r == base_update(observed_instances, sampled_instances, sampled)
       IN /\ observed_instances' = r.observed
          /\ sampled_instances' = r.sampled_n
    /\ dq' = [pc |-> "done", op |-> "update", sampled |-> sampled,
              before |-> persisted]
    /\ base_query_strategy_' = TRUE
    /\ UNCHANGED <<twin, budget, bm_call, badge, config, clf_, random_state_>>

\* the caller has taken the result of the last call; the wrapper is idle
DelayReturn ==
    /\ dq.pc = "done"
    /\ dq' = [pc |-> "idle"]
    /\ UNCHANGED <<twin, budgetVars, badge, config, base_query_strategy_, clf_,
                   random_state_>>

NextForgetting ==
    \/ \E data \in Datasets \cup MisshapenDatasets,
          cands \in Candidates \cup MisshapenCandidates,
          simulate \in BOOLEAN :
         \E sample_weight \in SampleWeights(Len(data.X)) :
            ForgettingQuery(data, sample_weight, cands, simulate)
    \/ \E m \in 1..MaxCand : \E sampled \in [1..m -> {0, 1}] :
         ForgettingUpdate(sampled)
    \/ DelayReturn

\* ------------------------------------------------------------------------
\* BaggingDelaySimulationWrapper
\* ------------------------------------------------------------------------
\* the values of the parameter K
Ks == {1, 2}

\* the numbers of the calls made on one wrapper
BaggingCalls == 1..2

\* the training data of the queries: two instances, the label of the first
\* one arriving with the first candidate; either the first one is acquired
\* with label 0, or no instance is acquired
BaggingDatasets ==
    {d \in Datasets :
        /\ Len(d.X) = 2
        /\ d.ty[1] = 4
        /\ \/ d.acquisitions[1] /\ d.y[1] = 0
           \/ ~d.acquisitions[1] /\ ~d.acquisitions[2]}

\* delay_prior=0.001
delay_prior == Rat(1, 1000)

\* a wrapper on which no call has been made has no attribute clf_
NotFitted == [fitted |-> FALSE]

\* the random_state of a classifier cloned from the parameter clf
ClonedSeed == [drawn |-> FALSE, at |-> 0]

\* the random_state of the default classifier: the value randint returns at
\* position `at` of the generator's stream
DrawnSeed(at) == [drawn |-> TRUE, at |-> at]

\* clf.fit(X, y, sample_weight) of a Parzen window classifier: per class, the
\* weight of the training instances that carry the class
pwc_fit(random_state, y, sample_weight) ==
    [fitted |-> TRUE,
     random_state |-> random_state,
     freq |-> [c \in Classes |->
                 SumSeq([j \in 1..Len(y) |->
                            IF y[j] = c
                            THEN IF sample_weight.given
                                 THEN sample_weight.w[j] ELSE 1
                            ELSE 0])]]

\* pwc.predict_freq(X_B_n): one frequency vector per instance
pwc_predict_freq(pwc, X_B_n) == [r \in 1..Len(X_B_n) |-> pwc.freq]

\* _validate_clf: a new clf_ is made and fitted by every query
validate_clf(clf, random_state, y, sample_weight) ==
    IF clf = "None"
    THEN [clf_ |-> pwc_fit(DrawnSeed(random_state), y, sample_weight),
          random_state_ |-> random_state + 1]
    ELSE [clf_ |-> pwc_fit(ClonedSeed, y, sample_weight),
          random_state_ |-> random_state]

\* get_class_probabilities: (frequencies + delay_prior) normalised per row
get_class_probabilities(pwc_before, X_B_n, y, sample_weight) ==
    LET pwc == pwc_fit(pwc_before.random_state, y, sample_weight)
        frequencies == pwc_predict_freq(pwc, X_B_n)
        w_prior(r) == [c \in Classes |->
                          frequencies[r][c] * delay_prior.d + delay_prior.n]
    IN [clf_ |-> pwc,
        probabilities |->
            [r \in 1..Len(X_B_n) |->
                [num |-> w_prior(r),
                 den |-> w_prior(r)[0] + w_prior(r)[1]]]]

\* np.argmax([multinomial(1, p_d) for p_d in probabilities], axis=1): the
\* label vectors the draws can give
label_draws(probabilities) ==
    {y_B_n \in [1..Len(probabilities) -> Classes] :
        \A r \in 1..Len(probabilities) : probabilities[r].num[y_B_n[r]] > 0}

\* map_B_n, with ty <= ty_cand for ty < ty_cand
pending_map_closed(a, i) ==
    [j \in 1..Len(a.X) |->
        /\ a.acquisitions[j]
        /\ a.ty[j] >= a.tX_cand[i]
        /\ a.ty[j] <= a.ty_cand[i]]

\* map_B_n: acquired instances whose label arrives in [tX_cand, ty_cand)
pending_map(a, i) ==
    [j \in 1..Len(a.X) |->
        /\ a.acquisitions[j]
        /\ a.ty[j] >= a.tX_cand[i]
        /\ a.ty[j] < a.ty_cand[i]]

\* np.sum(map_B_n)
count(mask) == Len(Where(mask, 1))

\* np.max over an array
MaxOf(s) == CHOOSE x \in Range(s) : \A z \in Range(s) : z <= x

\* the query of one simulation round, with new_ty[:] = ... for
\* new_ty[map_B_n] = ...
simulated_call_everyTy(a, i, map_B_n, y_B_n) ==
    LET idx == Where(map_B_n, 1)
        rank(j) == CHOOSE r \in 1..Len(idx) : idx[r] = j - 1
        latest == MaxOf(a.ty \o a.tX)
    IN [X_cand |-> a.X_cand[i],
        X |-> a.X,
        y |-> [j \in 1..Len(a.y) |->
                 IF map_B_n[j] THEN y_B_n[rank(j)] ELSE a.y[j]],
        tX |-> a.tX,
        ty |-> [j \in 1..Len(a.ty) |-> (latest + a.tX_cand[i]) \div 2],
        tX_cand |-> a.tX_cand[i],
        ty_cand |-> a.ty_cand[i],
        acquisitions |-> a.acquisitions,
        sample_weight |-> a.sample_weight,
        simulate |-> TRUE]

\* the base strategy's query of one simulation round for candidate i
simulated_call(a, i, map_B_n, y_B_n) ==
    LET idx == Where(map_B_n, 1)
        rank(j) == CHOOSE r \in 1..Len(idx) : idx[r] = j - 1
        latest == MaxOf(a.ty \o a.tX)
    IN [X_cand |-> a.X_cand[i],
        X |-> a.X,
        y |-> [j \in 1..Len(a.y) |->
                 IF map_B_n[j] THEN y_B_n[rank(j)] ELSE a.y[j]],
        tX |-> a.tX,
        ty |-> [j \in 1..Len(a.ty) |->
                  IF map_B_n[j] THEN (latest + a.tX_cand[i]) \div 2
                  ELSE a.ty[j]],
        tX_cand |-> a.tX_cand[i],
        ty_cand |-> a.ty_cand[i],
        acquisitions |-> a.acquisitions,
        sample_weight |-> a.sample_weight,
        simulate |-> TRUE]

\* the else branch, with sample_weight left out of the call
direct_call_noWeight(a, i) ==
    [X_cand |-> a.X_cand[i], X |-> a.X, y |-> a.y, tX |-> a.tX, ty |-> a.ty,
     tX_cand |-> a.tX_cand[i], ty_cand |-> a.ty_cand[i],
     acquisitions |-> a.acquisitions, sample_weight |-> NoWeight,
     simulate |-> a.simulate]

\* the base strategy's query for a candidate i without pending instances
direct_call(a, i) ==
    [X_cand |-> a.X_cand[i], X |-> a.X, y |-> a.y, tX |-> a.tX, ty |-> a.ty,
     tX_cand |-> a.tX_cand[i], ty_cand |-> a.ty_cand[i],
     acquisitions |-> a.acquisitions, sample_weight |-> a.sample_weight,
     simulate |-> a.simulate]

\* np.zeros(self.K)
zeros(K) == [q \in 1..K |-> 0]

\* sum_utilities += utilities[0], numerators over Den
add_utility(sum_utilities, u) ==
    [q \in 1..Len(sum_utilities) |-> sum_utilities[q] + u.n]

\* (sum_utilities)[0], without the division by K
mean_utility_noDivide(sum_utilities, K) == Rat(sum_utilities[1], Den)

\* (sum_utilities / self.K)[0]
mean_utility(sum_utilities, K) == Rat(sum_utilities[1], K * Den)

\* the draws one query takes from random_state_
RECURSIVE draws_of_candidates(_, _, _)
draws_of_candidates(a, K, i) ==
    IF i > Len(a.X_cand) THEN 0
    ELSE K * count(pending_map(a, i)) + draws_of_candidates(a, K, i + 1)

draws_of_query(a, K, clf) ==
    (IF clf = "None" THEN 1 ELSE 0) + draws_of_candidates(a, K, 1)

\* the candidates one non-simulated query commits to the budget manager:
\* every candidate by update and every candidate of the else branch by the
\* base strategy's query
commits_of_query(a) ==
    IF a.simulate THEN 0
    ELSE Len(a.X_cand)
         + Cardinality({i \in 1..Len(a.X_cand) : count(pending_map(a, i)) = 0})

\* budget_manager_.sample(avg_utilities, simulate=True), with the simulate
\* flag of the query for True
budget_decision_ownFlag(obs, smp, b, avg_utilities, simulate) ==
    [call |-> [utilities |-> avg_utilities, simulate |-> simulate],
     result |-> sample(obs, smp, b, avg_utilities, simulate)]

\* sampled_indices = budget_manager_.sample(avg_utilities, simulate=True):
\* the call the wrapper makes and what it returns
budget_decision(obs, smp, b, avg_utilities, simulate) ==
    [call |-> [utilities |-> avg_utilities, simulate |-> TRUE],
     result |-> sample(obs, smp, b, avg_utilities, TRUE)]

\* the values of K the model gives a wrapper besides those of Ks, as
\* <<type(K), K>>: 0, -1, 2.0 and None
OtherKs == {<<"int", 0>>, <<"int", -1>>, <<"float", 2>>, <<"NoneType", 0>>}

\* the parameters of a BaggingDelaySimulationWrapper
BaggingConfigs ==
    {[wrapper |-> "BaggingDelaySimulationWrapper",
      K |-> K, K_type |-> "int", clf |-> clf] :
        K \in Ks, clf \in {"None", "given"}}
    \cup {[wrapper |-> "BaggingDelaySimulationWrapper",
           K |-> k[2], K_type |-> k[1], clf |-> "None"] : k \in OtherKs}

\* _validate_K: the error it raises, if any
validate_K(K_type, K) ==
    IF K_type = "NoneType" THEN "none"
    ELSE IF K_type # "int" THEN "TypeError"
    ELSE IF K <= 0 THEN "ValueError"
    ELSE "none"

\* the rounds of the simulation loop a query can run: range(self.K)
rounds(K_type, K) == IF K_type = "int" /\ K > 0 THEN K ELSE 0

\* no candidate has been scored yet
NoCand == [scored |-> FALSE]

\* BaggingDelaySimulationWrapper.__init__
InitBagging ==
    /\ config \in BaggingConfigs
    /\ budget \in DelayBudgets
    /\ observed_instances = 0
    /\ sampled_instances = 0
    /\ bm_call = NoCall
    /\ badge = Unused
    /\ base_query_strategy_ = FALSE
    /\ clf_ = NotFitted
    /\ random_state_ = 0
    /\ dq = [pc |-> "idle", ncalls |-> 0]
    /\ twin = Unused

\* BaggingDelaySimulationWrapper.query: _validate_data, which makes the
\* base strategy, then makes and fits clf_, and only then validates K
BaggingQuery(data, sample_weight, cands, simulate) ==
    /\ dq.pc = "idle"
    /\ dq.ncalls + 1 \in BaggingCalls
    /\ LET a == query_args(data, sample_weight, cands, simulate)
           v == validate_clf(config.clf, random_state_, a.y, a.sample_weight)
           raised == validate_K(config.K_type, config.K)
       IN /\ random_state_
                + draws_of_query(a, rounds(config.K_type, config.K),
                                 config.clf)
                <= MaxDraws
          /\ observed_instances + commits_of_query(a) <= MaxObserved
          /\ clf_' = v.clf_
          /\ random_state_' = v.random_state_
          /\ dq' = IF raised = "none"
                   THEN [pc |-> "loop", op |-> "query", ncalls |-> dq.ncalls,
                         args |-> a, before |-> persisted,
                         i |-> 0, k |-> 0, probabilities |-> <<>>,
                         sum_utilities |-> <<>>, calls |-> <<>>,
                         avg_utilities |-> <<>>, cand |-> NoCand,
                         bm_samples |-> <<>>]
                   ELSE [pc |-> "done", op |-> "query",
                         ncalls |-> dq.ncalls + 1, raised |-> raised,
                         args |-> a, before |-> persisted]
    /\ base_query_strategy_' = TRUE
    /\ UNCHANGED <<twin, budgetVars, badge, config>>

\* the else branch of the loop: the next candidate has no pending instance
BaggingDirect ==
    /\ dq.pc = "loop"
    /\ dq.i < Len(dq.args.X_cand)
    /\ LET i == dq.i + 1
           map_B_n == pending_map(dq.args, i)
           c == direct_call(dq.args, i)
           r == base_query(observed_instances, sampled_instances, budget, c)
       IN /\ count(map_B_n) = 0
          /\ observed_instances' = r.observed
          /\ sampled_instances' = r.sampled_n
          /\ dq' = [dq EXCEPT
                      !.i = i,
                      !.avg_utilities = Append(@, r.utilities[1]),
                      !.cand = [scored |-> TRUE, i |-> i, map_B_n |-> map_B_n,
                                branch |-> "direct",
                                calls |-> <<[call |-> c,
                                             utility |-> r.utilities[1],
                                             drawn_at |-> random_state_]>>,
                                utility |-> r.utilities[1]]]
    /\ UNCHANGED <<twin, budget, bm_call, badge, config, base_query_strategy_,
                   clf_, random_state_>>

\* one round of the K simulations for the next candidate, which has pending
\* instances; the first round follows get_class_probabilities
BaggingRound(y_B_n) ==
    /\ dq.pc = "loop"
    /\ dq.i < Len(dq.args.X_cand)
    /\ config.K_type = "int"
    /\ dq.k < config.K
    /\ LET i == dq.i + 1
           a == dq.args
           map_B_n == pending_map(a, i)
           g == get_class_probabilities(clf_, select(a.X, map_B_n), a.y,
                                        a.sample_weight)
           probabilities == IF dq.k = 0 THEN g.probabilities
                            ELSE dq.probabilities
           sum_utilities == IF dq.k = 0 THEN zeros(config.K)
                            ELSE dq.sum_utilities
           c == simulated_call(a, i, map_B_n, y_B_n)
           r == base_query(observed_instances, sampled_instances, budget, c)
       IN /\ count(map_B_n) > 0
          /\ y_B_n \in label_draws(probabilities)
          /\ clf_' = IF dq.k = 0 THEN g.clf_ ELSE clf_
          /\ random_state_' = random_state_ + Len(y_B_n)
          /\ observed_instances' = r.observed
          /\ sampled_instances' = r.sampled_n
          /\ dq' = [dq EXCEPT
                      !.k = @ + 1,
                      !.probabilities = probabilities,
                      !.sum_utilities = add_utility(sum_utilities,
                                                    r.utilities[1]),
                      !.calls = Append(@, [call |-> c,
                                           utility |-> r.utilities[1],
                                           drawn_at |-> random_state_])]
    /\ UNCHANGED <<twin, budget, bm_call, badge, config, base_query_strategy_>>

\* K=None passes _validate_K, and the next candidate has pending instances:
\* after get_class_probabilities, np.zeros(self.K) or range(self.K) raises
BaggingRoundRaises ==
    /\ dq.pc = "loop"
    /\ dq.i < Len(dq.args.X_cand)
    /\ config.K_type = "NoneType"
    /\ LET a == dq.args
           map_B_n == pending_map(a, dq.i + 1)
           g == get_class_probabilities(clf_, select(a.X, map_B_n), a.y,
                                        a.sample_weight)
       IN /\ count(map_B_n) > 0
          /\ clf_' = g.clf_
    /\ dq' = [pc |-> "done", op |-> "query", ncalls |-> dq.ncalls + 1,
              raised |-> "TypeError", args |-> dq.args, before |-> dq.before]
    /\ UNCHANGED <<twin, budgetVars, badge, config, base_query_strategy_,
                   random_state_>>

\* after the K rounds: tmp_avg_utilities = sum_utilities / self.K
BaggingAverage ==
    /\ dq.pc = "loop"
    /\ dq.i < Len(dq.args.X_cand)
    /\ config.K_type = "int"
    /\ dq.k = config.K
    /\ LET i == dq.i + 1
           map_B_n == pending_map(dq.args, i)
           utility == mean_utility(dq.sum_utilities, config.K)
       IN /\ count(map_B_n) > 0
          /\ dq' = [dq EXCEPT
                      !.i = i,
                      !.k = 0,
                      !.probabilities = <<>>,
                      !.sum_utilities = <<>>,
                      !.calls = <<>>,
                      !.avg_utilities = Append(@, utility),
                      !.cand = [scored |-> TRUE, i |-> i, map_B_n |-> map_B_n,
                                branch |-> "simulation",
                                calls |-> dq.calls, utility |-> utility]]
    /\ UNCHANGED <<twin, budgetVars, badge, config, base_query_strategy_, clf_,
                   random_state_>>

\* after the loop: the budget manager decides on all utilities, and the base
\* strategy is updated unless the query is simulated
BaggingFinish ==
    /\ dq.pc = "loop"
    /\ dq.i = Len(dq.args.X_cand)
    /\ LET d == budget_decision(observed_instances, sampled_instances,
                                budget, dq.avg_utilities, dq.args.simulate)
           s == d.result
           sampled == indicator(Len(dq.args.X_cand), s.sampled_indices)
           u == IF dq.args.simulate
                THEN [observed |-> s.observed, sampled_n |-> s.sampled_n]
                ELSE base_update(s.observed, s.sampled_n, sampled)
       IN /\ observed_instances' = u.observed
          /\ sampled_instances' = u.sampled_n
          /\ dq' = [pc |-> "done", op |-> "query", ncalls |-> dq.ncalls + 1,
                    raised |-> "none",
                    args |-> dq.args, before |-> dq.before,
                    sampled_indices |-> s.sampled_indices,
                    avg_utilities |-> dq.avg_utilities,
                    sampled |-> sampled, cand |-> dq.cand,
                    bm_samples |-> Append(dq.bm_samples, d.call)]
    /\ UNCHANGED <<twin, budget, bm_call, badge, config, base_query_strategy_,
                   clf_, random_state_>>

\* BaggingDelaySimulationWrapper.update(X_cand, sampled)
BaggingUpdate(sampled) ==
    /\ dq.pc = "idle"
    /\ dq.ncalls + 1 \in BaggingCalls
    /\ observed_instances + Len(sampled) <= MaxObserved
    /\ LET r == base_update(observed_instances, sampled_instances, sampled)
       IN /\ observed_instances' = r.observed
          /\ sampled_instances' = r.sampled_n
    /\ dq' = [pc |-> "done", op |-> "update", ncalls |-> dq.ncalls + 1,
              raised |-> "none", sampled |-> sampled, before |-> persisted]
    /\ base_query_strategy_' = TRUE
    /\ UNCHANGED <<twin, budget, bm_call, badge, config, clf_, random_state_>>

\* the caller has taken the result of the last call; the wrapper is idle
BaggingReturn ==
    /\ dq.pc = "done"
    /\ dq' = [pc |-> "idle", ncalls |-> dq.ncalls]
    /\ UNCHANGED <<twin, budgetVars, badge, config, base_query_strategy_, clf_,
                   random_state_>>

NextBagging ==
    \/ \E data \in BaggingDatasets, cands \in Candidates,
          simulate \in BOOLEAN :
         \E sample_weight \in SampleWeights(Len(data.X)) :
            BaggingQuery(data, sample_weight, cands, simulate)
    \/ BaggingDirect
    \/ \E n \in RowCounts : \E y_B_n \in [1..n -> Classes] :
         BaggingRound(y_B_n)
    \/ BaggingRoundRaises
    \/ BaggingAverage
    \/ BaggingFinish
    \/ \E m \in 1..MaxCand : \E sampled \in [1..m -> {0, 1}] :
         BaggingUpdate(sampled)
    \/ BaggingReturn

\* the label vectors with at least one missing label
LabelVectors ==
    {y \in UNION {[1..n -> {"labeled", "missing"}] : n \in 1..MaxSamples} :
        \E j \in 1..Len(y) : y[j] = "missing"}

\* five samples of which two are labeled, one of each class
FivePointLabelVectors ==
    {y \in [1..5 -> {"labeled", "missing"}] :
        Cardinality({j \in 1..5 : y[j] = "labeled"}) = 2}

NextBadge ==
    \/ \E y \in LabelVectors \cup FivePointLabelVectors :
         LET m == Len(unlabeled_indices(y)) IN
         \E p_max \in [1..m -> PMaxNums], X_emb \in [1..m -> XEmbValues],
            batch_size \in 1..Min(m, MaxBatch) :
              BadgeQuery(y, p_max, X_emb, batch_size)
    \/ BadgeRound
    \/ BadgeReturn
    \/ BadgeNextCall

\* ------------------------------------------------------------------------
\* Two BaggingDelaySimulationWrapper instances given the same random_state
\* ------------------------------------------------------------------------
\* the int seeds given as random_state
Seeds == {5, 10}

\* the value at position `at` of the stream of RandomState(seed): a seed
\* fixes the stream (here its binary digits)
stream(seed, at) == (seed \div (2 ^ at)) % 2

\* np.argmax(random_state_.multinomial(1, p_d)): the class picked by the
\* value u of the stream, among the classes of non-zero probability
draw_label(u, p_d) == IF p_d.num[u] > 0 THEN u ELSE 1 - u

\* the parameters both instances are constructed with: a valid K, and an int
\* as random_state
TwinConfigs ==
    {[wrapper |-> "BaggingDelaySimulationWrapper",
      K |-> K, K_type |-> "int", clf |-> clf, random_state |-> seed] :
        K \in Ks, clf \in {"None", "given"}, seed \in Seeds}

\* an instance after __init__: no random_state_, no base_query_strategy_,
\* no clf_; its base strategy's budget manager has counted nothing. `made`
\* counts the generators made for the instance, `drawn` the values taken
\* from random_state_ by its calls.
NewInstance ==
    [has_random_state_ |-> FALSE,
     random_state_ |-> [seed |-> 0, at |-> 0],
     base_query_strategy_ |-> FALSE,
     observed |-> 0,
     sampled_n |-> 0,
     clf_ |-> NotFitted,
     made |-> 0,
     drawn |-> 0]

\* _validate_random_state with a generator that is not seeded by
\* random_state: the generators it can make
validate_random_state_unseeded(random_state, inst) ==
    IF ~inst.has_random_state_
    THEN {[seed |-> seed, at |-> 0] : seed \in Seeds}
    ELSE {inst.random_state_}

\* _validate_random_state: random_state_ is made from random_state when the
\* instance has none, and kept otherwise (a set, of one generator)
validate_random_state(random_state, inst) ==
    IF ~inst.has_random_state_
    THEN {[seed |-> random_state, at |-> 0]}
    ELSE {inst.random_state_}

\* one round of the simulation is done: the labels drawn for it have been
\* taken from random_state_, and the base strategy has answered q
after_round(w, n, q) ==
    [random_state_ |-> [w.random_state_ EXCEPT !.at = @ + n],
     observed |-> q.observed,
     sampled_n |-> q.sampled_n,
     sum_utilities |-> add_utility(w.sum_utilities, q.utilities[1])]

\* y_B_n of one round: one draw of random_state_ per pending instance
drawn_labels(rs, probabilities) ==
    [r \in 1..Len(probabilities) |->
        draw_label(stream(rs.seed, rs.at + r - 1), probabilities[r])]

\* the K simulation rounds of candidate i: k rounds are left; w holds
\* random_state_, the base strategy's counters and sum_utilities
RECURSIVE simulation_rounds(_, _, _, _, _, _, _)
simulation_rounds(a, i, map_B_n, probabilities, b, k, w) ==
    IF k = 0 THEN w
    ELSE simulation_rounds(a, i, map_B_n, probabilities, b, k - 1,
            after_round(w, Len(probabilities),
                base_query(w.observed, w.sampled_n, b,
                    simulated_call(a, i, map_B_n,
                        drawn_labels(w.random_state_, probabilities)))))

\* the locals at the start of the K rounds
before_rounds(w, K) ==
    [random_state_ |-> w.random_state_,
     observed |-> w.observed,
     sampled_n |-> w.sampled_n,
     sum_utilities |-> zeros(K)]

\* a candidate with pending instances has been scored: r holds the locals
\* after its K rounds
after_simulation(w, clf, r, K) ==
    [random_state_ |-> r.random_state_,
     clf_ |-> clf,
     observed |-> r.observed,
     sampled_n |-> r.sampled_n,
     avg_utilities |-> Append(w.avg_utilities,
                              mean_utility(r.sum_utilities, K))]

\* a candidate without pending instances has been scored by the answer q of
\* the base strategy
after_direct(w, q) ==
    [w EXCEPT !.observed = q.observed,
              !.sampled_n = q.sampled_n,
              !.avg_utilities = Append(@, q.utilities[1])]

\* the simulation branch for candidate i, given what get_class_probabilities
\* returned
simulate_candidate(a, K, b, i, w, map_B_n, g) ==
    after_simulation(w, g.clf_,
        simulation_rounds(a, i, map_B_n, g.probabilities, b, K,
                          before_rounds(w, K)),
        K)

\* the loop of BaggingDelaySimulationWrapper.query over the candidates from
\* candidate i (1-based) on; w holds random_state_, clf_, the base
\* strategy's counters and avg_utilities
RECURSIVE bagging_loop(_, _, _, _, _)
bagging_loop(a, K, b, i, w) ==
    IF i > Len(a.X_cand) THEN w
    ELSE IF count(pending_map(a, i)) > 0
    THEN bagging_loop(a, K, b, i + 1,
            simulate_candidate(a, K, b, i, w, pending_map(a, i),
                get_class_probabilities(w.clf_,
                                        select(a.X, pending_map(a, i)),
                                        a.y, a.sample_weight)))
    ELSE bagging_loop(a, K, b, i + 1,
            after_direct(w, base_query(w.observed, w.sampled_n, b,
                                       direct_call(a, i))))

\* the locals before the loop: _validate_clf has made and fitted clf_
before_loop(inst, rs, v) ==
    [random_state_ |-> [rs EXCEPT !.at = v.random_state_],
     clf_ |-> v.clf_,
     observed |-> inst.observed,
     sampled_n |-> inst.sampled_n,
     avg_utilities |-> <<>>]

\* the base strategy's counters after the decision s of the budget manager:
\* update is called unless the query is simulated
commit(a, s) ==
    IF a.simulate
    THEN [observed |-> s.observed, sampled_n |-> s.sampled_n]
    ELSE base_update(s.observed, s.sampled_n,
                     indicator(Len(a.X_cand), s.sampled_indices))

\* the instance after the query and what the query returns, from the locals
\* w after the loop, the decision s and the counters u after the commit
after_query(inst, cfg, a, w, s, u) ==
    [inst |-> [has_random_state_ |-> TRUE,
               random_state_ |-> w.random_state_,
               base_query_strategy_ |-> TRUE,
               observed |-> u.observed,
               sampled_n |-> u.sampled_n,
               clf_ |-> w.clf_,
               made |-> inst.made + (IF inst.has_random_state_ THEN 0 ELSE 1),
               drawn |-> inst.drawn + draws_of_query(a, cfg.K, cfg.clf)],
     returned |-> [sampled_indices |-> s.sampled_indices,
                   utilities |-> w.avg_utilities]]

\* the end of the query, from the decision s of the budget manager
decided(inst, cfg, a, w, s) == after_query(inst, cfg, a, w, s, commit(a, s))

\* the end of the query, from the locals w after the loop
after_loop(inst, cfg, b, a, w) ==
    decided(inst, cfg, a, w,
            budget_decision(w.observed, w.sampled_n, b, w.avg_utilities,
                            a.simulate).result)

\* BaggingDelaySimulationWrapper.query on an instance whose random_state_ is
\* the generator rs: the instance afterwards and what the call returns
bagging_query(inst, rs, cfg, b, a) ==
    after_loop(inst, cfg, b, a,
        bagging_loop(a, cfg.K, b, 1,
            before_loop(inst, rs,
                validate_clf(cfg.clf, rs.at, a.y, a.sample_weight))))

\* the arguments of a query cut after candidate i (1-based)
first_candidates(a, i) ==
    [a EXCEPT !.X_cand = SubSeq(@, 1, i),
              !.tX_cand = SubSeq(@, 1, i),
              !.ty_cand = SubSeq(@, 1, i)]

\* both instances have answered a query; cut[i] is what the query returns
\* when it is given the candidates up to i only
queried(ncalls, r1, r2, cut) ==
    [pc |-> "done", op |-> "query", ncalls |-> ncalls,
     inst |-> <<r1.inst, r2.inst>>,
     returned |-> <<r1.returned, r2.returned>>,
     cut |-> cut]

\* both instances after __init__ with the same parameters
InitTwins ==
    /\ config \in TwinConfigs
    /\ budget \in DelayBudgets
    /\ observed_instances = 0
    /\ sampled_instances = 0
    /\ bm_call = NoCall
    /\ badge = Unused
    /\ base_query_strategy_ = FALSE
    /\ clf_ = Unused
    /\ random_state_ = 0
    /\ dq = Unused
    /\ twin = [pc |-> "idle", ncalls |-> 0,
               inst |-> <<NewInstance, NewInstance>>]

\* the same query on both instances
TwinQuery(data, sample_weight, cands, simulate) ==
    /\ twin.pc = "idle"
    /\ twin.ncalls + 1 \in BaggingCalls
    /\ LET a == query_args(data, sample_weight, cands, simulate) IN
       /\ \A n \in 1..2 :
             /\ twin.inst[n].drawn
                   + draws_of_query(a, config.K, config.clf) <= MaxDraws
             /\ twin.inst[n].observed + commits_of_query(a) <= MaxObserved
       /\ \E rs1 \in validate_random_state(config.random_state, twin.inst[1]),
             rs2 \in validate_random_state(config.random_state, twin.inst[2]) :
             twin' = queried(twin.ncalls + 1,
                        bagging_query(twin.inst[1], rs1, config, budget, a),
                        bagging_query(twin.inst[2], rs2, config, budget, a),
                        [i \in 1..Len(a.X_cand) |->
                            bagging_query(twin.inst[1], rs1, config, budget,
                                          first_candidates(a, i)).returned])
    /\ UNCHANGED <<budgetVars, badge, delayVars>>

\* BaggingDelaySimulationWrapper.update on an instance
bagging_update(inst, sampled) ==
    LET u == base_update(inst.observed, inst.sampled_n, sampled)
    IN [inst EXCEPT !.base_query_strategy_ = TRUE,
                    !.observed = u.observed,
                    !.sampled_n = u.sampled_n]

\* the same update on both instances
TwinUpdate(sampled) ==
    /\ twin.pc = "idle"
    /\ twin.ncalls + 1 \in BaggingCalls
    /\ \A n \in 1..2 : twin.inst[n].observed + Len(sampled) <= MaxObserved
    /\ twin' = [pc |-> "done", op |-> "update", ncalls |-> twin.ncalls + 1,
                inst |-> [n \in 1..2 |-> bagging_update(twin.inst[n], sampled)]]
    /\ UNCHANGED <<budgetVars, badge, delayVars>>

\* the caller has taken the results of the last call
TwinReturn ==
    /\ twin.pc = "done"
    /\ twin' = [pc |-> "idle", ncalls |-> twin.ncalls, inst |-> twin.inst]
    /\ UNCHANGED <<budgetVars, badge, delayVars>>

NextTwins ==
    \/ \E data \in BaggingDatasets, cands \in Candidates,
          simulate \in BOOLEAN :
         \E sample_weight \in SampleWeights(Len(data.X)) :
            TwinQuery(data, sample_weight, cands, simulate)
    \/ \E m \in 1..MaxCand : \E sampled \in [1..m -> {0, 1}] :
         TwinUpdate(sampled)
    \/ TwinReturn

\* ------------------------------------------------------------------------
\* FuzzyDelaySimulationWrapper
\* ------------------------------------------------------------------------
\* training instances as (acquisitions, y, tX, ty): not acquired; acquired
\* with the label there; acquired with a label that arrives at 4; acquired
\* with no label in y yet, arriving at 6; and an instance that arrives at 6,
\* after the first candidate, its label with it
NotAcquired == [acquisitions |-> FALSE, y |-> MISSING_LABEL, tX |-> 0, ty |-> 0]
Labelled == [acquisitions |-> TRUE, y |-> 1, tX |-> 0, ty |-> 0]
LabelledLater == [acquisitions |-> TRUE, y |-> 0, tX |-> 2, ty |-> 4]
Awaited == [acquisitions |-> TRUE, y |-> MISSING_LABEL, tX |-> 2, ty |-> 6]
Latecomer == [acquisitions |-> TRUE, y |-> MISSING_LABEL, tX |-> 6, ty |-> 6]

\* the training data of the queries
FuzzyDatasets ==
    {[X |-> [j \in 1..Len(rows) |-> j],
      y |-> [j \in 1..Len(rows) |-> rows[j].y],
      tX |-> [j \in 1..Len(rows) |-> rows[j].tX],
      ty |-> [j \in 1..Len(rows) |-> rows[j].ty],
      acquisitions |-> [j \in 1..Len(rows) |-> rows[j].acquisitions]] :
        rows \in {<<Labelled>>, <<Awaited>>, <<Labelled, LabelledLater>>,
                  <<NotAcquired, Awaited>>, <<LabelledLater, Latecomer>>,
                  <<Labelled, Latecomer>>}}

\* the values of the parameter delay_prior as <<type, value>>: the default
\* 0.001, the int 0 and -0.001
DelayPriors ==
    {<<"float", Rat(1, 1000)>>, <<"int", Rat(0, 1)>>, <<"float", Rat(-1, 1000)>>}

\* the parameters of the constructor; clf=None
FuzzyConfigs ==
    {[wrapper |-> "FuzzyDelaySimulationWrapper", prior_type |-> p[1],
      delay_prior |-> p[2], clf |-> "None"] : p \in DelayPriors}

\* the queries one wrapper answers, numbered by the values its generator
\* has given before them
FuzzyQueries == 0..1

\* _validate_delay_prior: the error check_scalar raises, if any
validate_delay_prior(prior_type, prior) ==
    IF prior_type # "NoneType"
    THEN IF prior_type \notin {"float", "int"} THEN "TypeError"
         ELSE IF prior.n < 0 THEN "ValueError"
         ELSE "none"
    ELSE "none"

\* frequencies + self.delay_prior for one instance, as numerators over the
\* denominator of delay_prior
frequencies_w_prior(frequencies, prior) ==
    [c \in Classes |-> frequencies[c] * prior.d + prior.n]

\* v / np.sum(v), the sum left out
divided_by_sum_not(v) == [c \in Classes |-> Rat(v[c], 1)]

\* v / np.sum(v): 0 / 0 is nan
divided_by_sum(v) ==
    [c \in Classes |-> IF v[0] + v[1] = 0 THEN NaN ELSE Rat(v[c], v[0] + v[1])]

\* get_class_probabilities of FuzzyDelaySimulationWrapper
fuzzy_get_class_probabilities(pwc_before, prior, X_B_n, y, sample_weight) ==
    [clf_ |-> pwc_fit(pwc_before.random_state, y, sample_weight),
     probabilities |->
        [r \in 1..Len(X_B_n) |->
            divided_by_sum(
                frequencies_w_prior(
                    pwc_predict_freq(
                        pwc_fit(pwc_before.random_state, y, sample_weight),
                        X_B_n)[r],
                    prior))]]

\* np.ones(len(y))
ones(n) == [given |-> TRUE, w |-> [j \in 1..n |-> 1]]

\* simulate_ty, with - for +
simulate_ty_difference(a, i) ==
    (MaxOf(a.ty \o a.tX) - a.tX_cand[i]) \div 2

\* simulate_ty = (np.max([ty, tX]) + tX_cand_current) / 2
simulate_ty(a, i) ==
    (MaxOf(a.ty \o a.tX) + a.tX_cand[i]) \div 2

\* the rows added for the pending instances: one per instance and class
pseudo_rows(a, map_B_n, probabilities, new_ty) ==
    [k \in 1..(count(map_B_n) * Cardinality(Classes)) |->
        [X |-> select(a.X, map_B_n)[((k - 1) \div Cardinality(Classes)) + 1],
         y |-> (k - 1) % Cardinality(Classes),
         tX |-> select(a.tX, map_B_n)[((k - 1) \div Cardinality(Classes)) + 1],
         sample_weight |->
             probabilities[((k - 1) \div Cardinality(Classes)) + 1]
                          [(k - 1) % Cardinality(Classes)],
         ty |-> new_ty,
         acquisitions |-> TRUE]]

\* a sample_weight as the base strategy is given it: None, or real numbers
real_weights(sample_weight) ==
    [given |-> sample_weight.given,
     w |-> [j \in 1..Len(sample_weight.w) |-> Rat(sample_weight.w[j], 1)]]

\* the base strategy's query for a candidate i with pending instances
fuzzy_call(a, sample_weight, add, i) ==
    [X_cand |-> a.X_cand[i],
     X |-> a.X \o [k \in 1..Len(add) |-> add[k].X],
     y |-> a.y \o [k \in 1..Len(add) |-> add[k].y],
     tX |-> a.tX \o [k \in 1..Len(add) |-> add[k].tX],
     ty |-> a.ty \o [k \in 1..Len(add) |-> add[k].ty],
     tX_cand |-> a.tX_cand[i],
     ty_cand |-> a.ty_cand[i],
     sample_weight |->
        [given |-> TRUE,
         w |-> real_weights(sample_weight).w
               \o [k \in 1..Len(add) |-> add[k].sample_weight]],
     aquisitions |-> a.acquisitions
                     \o [k \in 1..Len(add) |-> add[k].acquisitions],
     simulate |-> TRUE]

\* the base strategy's query for a candidate i without pending instances
fuzzy_direct_call(a, sample_weight, i) ==
    [X_cand |-> a.X_cand[i], X |-> a.X, y |-> a.y, tX |-> a.tX, ty |-> a.ty,
     tX_cand |-> a.tX_cand[i], ty_cand |-> a.ty_cand[i],
     sample_weight |-> real_weights(sample_weight),
     aquisitions |-> a.acquisitions,
     simulate |-> TRUE]

\* The utility the base strategy gives one candidate on a training view with
\* real weights; what it is handed as `aquisitions` is one more keyword
\* argument to it.
soft_utility(c) ==
    Rat((c.X_cand + c.tX_cand + c.ty_cand
         + SumSeq([j \in 1..Len(c.X) |->
                     (IF c.sample_weight.given
                      THEN c.sample_weight.w[j].n + c.sample_weight.w[j].d
                      ELSE 2)
                     * (c.X[j] + c.tX[j] + c.ty[j] + c.y[j] + 2
                        + (IF c.aquisitions[j] THEN 1 ELSE 0))]))
        % (Den + 1), Den)

\* base_query_strategy_.query(X_cand=<one candidate>, ..., simulate=True)
soft_base_query(obs, smp, b, c) ==
    [sampled_indices |->
        sample(obs, smp, b, <<soft_utility(c)>>, c.simulate).sampled_indices,
     utilities |-> <<soft_utility(c)>>]

\* the locals of the loop after candidate i (1-based) got the answer r to
\* the call c
fuzzy_answered(st, sample_weight, clf, i, c, r) ==
    [sample_weight |-> sample_weight,
     clf_ |-> clf,
     calls |-> Append(st.calls, c),
     sampled_indices |-> IF Len(r.sampled_indices) > 0
                         THEN Append(st.sampled_indices, i - 1)
                         ELSE st.sampled_indices,
     utilities |-> Append(st.utilities, r.utilities[1]),
     tmp_sampled_indices |-> r.sampled_indices]

\* the call c is made for candidate i
fuzzy_asked(st, sample_weight, clf, i, c, obs, smp, b) ==
    fuzzy_answered(st, sample_weight, clf, i, c, soft_base_query(obs, smp, b, c))

\* a candidate with pending instances, p the result of
\* get_class_probabilities and sample_weight the given weight or ones
fuzzy_pending(a, i, st, map_B_n, p, sample_weight, obs, smp, b) ==
    fuzzy_asked(st, sample_weight, p.clf_, i,
                fuzzy_call(a, sample_weight,
                           pseudo_rows(a, map_B_n, p.probabilities,
                                       simulate_ty(a, i)),
                           i),
                obs, smp, b)

\* one iteration of the loop of FuzzyDelaySimulationWrapper.query
fuzzy_candidate(a, prior, i, st, map_B_n, obs, smp, b) ==
    IF count(map_B_n) > 0
    THEN fuzzy_pending(a, i, st, map_B_n,
                       fuzzy_get_class_probabilities(
                           st.clf_, prior, select(a.X, map_B_n), a.y,
                           st.sample_weight),
                       IF st.sample_weight.given THEN st.sample_weight
                       ELSE ones(Len(a.y)),
                       obs, smp, b)
    ELSE fuzzy_asked(st, st.sample_weight, st.clf_, i,
                     fuzzy_direct_call(a, st.sample_weight, i), obs, smp, b)

\* the loop over zip(tX_cand, ty_cand) from candidate i on
RECURSIVE fuzzy_loop(_, _, _, _, _, _, _)
fuzzy_loop(a, prior, b, obs, smp, i, st) ==
    IF i > Min(Len(a.tX_cand), Len(a.ty_cand)) THEN st
    ELSE fuzzy_loop(a, prior, b, obs, smp, i + 1,
                    fuzzy_candidate(a, prior, i, st, pending_map(a, i),
                                    obs, smp, b))

\* the locals before the loop
fuzzy_start(a, clf) ==
    [sample_weight |-> a.sample_weight, clf_ |-> clf, calls |-> <<>>,
     sampled_indices |-> <<>>, utilities |-> <<>>,
     tmp_sampled_indices |-> <<>>]

\* sampled = np.zeros(len(X_cand)); sampled[tmp_sampled_indices] = 1
fuzzy_sampled(a, st) == indicator(Len(a.X_cand), st.tmp_sampled_indices)

\* _validate_base_query_strategy, with the hasattr test left out: a new
\* base strategy, its budget manager's counters at zero
validate_base_query_strategy_anew(has_attr, made, obs, smp) ==
    [made |-> made + 1, observed |-> 0, sampled_n |-> 0]

\* _validate_base_query_strategy: base_query_strategy_ is made if the
\* wrapper has no such attribute; `made` counts the strategies made so far
validate_base_query_strategy(has_attr, made, obs, smp) ==
    IF ~has_attr
    THEN [made |-> made + 1, observed |-> 0, sampled_n |-> 0]
    ELSE [made |-> made, observed |-> obs, sampled_n |-> smp]

\* the end of query: the update of the base strategy and the return
fuzzy_finish(a, s, st, sampled) ==
    /\ observed_instances' =
          IF a.simulate THEN s.observed
          ELSE base_update(s.observed, s.sampled_n, sampled).observed
    /\ sampled_instances' =
          IF a.simulate THEN s.sampled_n
          ELSE base_update(s.observed, s.sampled_n, sampled).sampled_n
    /\ clf_' = st.clf_
    /\ dq' = [pc |-> "done", op |-> "query", made |-> s.made, args |-> a,
              before |-> persisted, validated |-> TRUE, raised |-> "none",
              calls |-> st.calls,
              updates |-> IF a.simulate THEN <<>> ELSE <<sampled>>,
              sampled_indices |-> st.sampled_indices,
              utilities |-> st.utilities]

\* FuzzyDelaySimulationWrapper.__init__
InitFuzzy ==
    /\ config \in FuzzyConfigs
    /\ budget \in DelayBudgets
    /\ observed_instances = 0
    /\ sampled_instances = 0
    /\ bm_call = NoCall
    /\ badge = Unused
    /\ base_query_strategy_ = FALSE
    /\ clf_ = NotFitted
    /\ random_state_ = 0
    /\ dq = [pc |-> "idle", made |-> 0]
    /\ twin = Unused

\* FuzzyDelaySimulationWrapper.query; s is the result of
\* _validate_base_query_strategy, v that of _validate_clf
FuzzyQueryValidated(a, s, v) ==
    /\ random_state_' = v.random_state_
    /\ base_query_strategy_' = TRUE
    /\ IF validate_delay_prior(config.prior_type, config.delay_prior) # "none"
       THEN /\ clf_' = v.clf_
            /\ dq' = [pc |-> "done", op |-> "query", made |-> s.made,
                      args |-> a,
                      before |-> persisted, validated |-> FALSE,
                      raised |-> validate_delay_prior(config.prior_type,
                                                      config.delay_prior),
                      calls |-> <<>>, updates |-> <<>>,
                      sampled_indices |-> <<>>, utilities |-> <<>>]
            /\ observed_instances' = s.observed
            /\ sampled_instances' = s.sampled_n
       ELSE fuzzy_finish(a, s,
                fuzzy_loop(a, config.delay_prior, budget, s.observed,
                           s.sampled_n, 1, fuzzy_start(a, v.clf_)),
                fuzzy_sampled(a,
                    fuzzy_loop(a, config.delay_prior, budget, s.observed,
                               s.sampled_n, 1, fuzzy_start(a, v.clf_))))

\* FuzzyDelaySimulationWrapper.query
FuzzyQuery(data, sample_weight, cands, simulate) ==
    /\ dq.pc = "idle"
    /\ random_state_ \in FuzzyQueries
    /\ observed_instances + Len(cands.X_cand) <= MaxObserved
    /\ FuzzyQueryValidated(query_args(data, sample_weight, cands, simulate),
                           validate_base_query_strategy(
                               base_query_strategy_, dq.made,
                               observed_instances, sampled_instances),
                           validate_clf(config.clf, random_state_, data.y,
                                        sample_weight))
    /\ UNCHANGED <<twin, budget, bm_call, badge, config>>

\* update after _validate_base_query_strategy, s its result
FuzzyUpdateValidated(sampled, s) ==
    /\ observed_instances' =
          base_update(s.observed, s.sampled_n, sampled).observed
    /\ sampled_instances' =
          base_update(s.observed, s.sampled_n, sampled).sampled_n
    /\ dq' = [pc |-> "done", op |-> "update", made |-> s.made,
              sampled |-> sampled, before |-> persisted]

\* FuzzyDelaySimulationWrapper.update(X_cand, sampled)
FuzzyUpdate(sampled) ==
    /\ dq.pc = "idle"
    /\ observed_instances + Len(sampled) <= MaxObserved
    /\ FuzzyUpdateValidated(sampled,
                            validate_base_query_strategy(
                                base_query_strategy_, dq.made,
                                observed_instances, sampled_instances))
    /\ base_query_strategy_' = TRUE
    /\ UNCHANGED <<twin, budget, bm_call, badge, config, clf_, random_state_>>

\* the caller has taken the result of the last call; the wrapper is idle
FuzzyReturn ==
    /\ dq.pc = "done"
    /\ dq' = [pc |-> "idle", made |-> dq.made]
    /\ UNCHANGED <<twin, budgetVars, badge, config, base_query_strategy_, clf_,
                   random_state_>>

NextFuzzy ==
    \/ \E data \in FuzzyDatasets, cands \in Candidates, simulate \in BOOLEAN :
         \E sample_weight \in SampleWeights(Len(data.X)) :
            FuzzyQuery(data, sample_weight, cands, simulate)
    \/ \E m \in 1..MaxCand : \E sampled \in [1..m -> {0, 1}] :
         FuzzyUpdate(sampled)
    \/ FuzzyReturn

SpecBudget == InitBudget /\ [][NextBudget]_vars

SpecBadge == InitBadge /\ [][NextBadge]_vars

SpecForgetting == InitForgetting /\ [][NextForgetting]_vars

SpecBagging == InitBagging /\ [][NextBagging]_vars

SpecTwins == InitTwins /\ [][NextTwins]_vars

SpecFuzzy == InitFuzzy /\ [][NextFuzzy]_vars

\* ------------------------------------------------------------------------
\* Claims about FixedBudget
\* ------------------------------------------------------------------------
\* C4: FixedBudget.sample called with simulate=True leaves observed_instances
\* and sampled_instances equal to their values before the call.
C4_SimulateKeepsCounters ==
    (bm_call.op = "sample" /\ bm_call.simulate) =>
        /\ observed_instances = bm_call.init_observed_instances
        /\ sampled_instances = bm_call.init_sampled_instances

\* a simulated call that decided to sample at least one instance has returned
C4_Witness ==
    /\ bm_call.op = "sample"
    /\ bm_call.simulate
    /\ Len(bm_call.sampled_indices) > 0

\* the counters as they stand when the i-th utility (1-based) of the last
\* call is assessed: those before the call plus what the earlier positions
\* of the same call added
ObservedAt(i) == bm_call.init_observed_instances + i

SampledBefore(i) ==
    bm_call.init_sampled_instances
        + Cardinality({k \in 1..(i - 1) : bm_call.sampled[k]})

\* C5: the i-th utility is marked sampled exactly when, after counting it as
\* observed, n_observed * budget - n_sampled >= 1 and the utility is higher
\* than the budget; the returned indices are the marked positions ascending.
C5_SampledIffBudgetLeftAndHigher ==
    bm_call.op = "sample" =>
        /\ \A i \in 1..Len(bm_call.utilities) :
              bm_call.sampled[i] <=>
                  /\ ObservedAt(i) * budget.n - SampledBefore(i) * budget.d
                        >= budget.d
                  /\ RatGt(bm_call.utilities[i], budget)
        /\ bm_call.sampled_indices = Where(bm_call.sampled, 1)

\* C6: with 0 <= budget <= 1 the sampled instances never exceed the allowed
\* ratio: sampled <= budget * observed, and sampled <= observed.
C6_SampledWithinBudget ==
    /\ sampled_instances * budget.d <= budget.n * observed_instances
    /\ sampled_instances <= observed_instances

\* two instances have been sampled and committed under a budget below 1
C6_Witness ==
    /\ sampled_instances >= 2
    /\ budget.n < budget.d

\* ------------------------------------------------------------------------
\* Claims about Badge
\* ------------------------------------------------------------------------
\* C1: Badge.query returns exactly batch_size indices that are mutually
\* distinct and all belong to the unlabeled candidate pool; no round
\* re-selects an index chosen in an earlier round of the same call.
C1_BatchDistinctFromPool ==
    badge.pc = "done" =>
        /\ Len(badge.query_indicies) = badge.batch_size
        /\ \A a, b \in 1..Len(badge.query_indicies) :
              a # b => badge.query_indicies[a] # badge.query_indicies[b]
        /\ \A a \in 1..Len(badge.query_indicies) :
              badge.y[badge.query_indicies[a] + 1] = "missing"

\* ------------------------------------------------------------------------
\* Claims about ForgettingWrapper
\* ------------------------------------------------------------------------
\* the k-th smallest element of a set of indices
Kth(J, k) == CHOOSE j \in J : Cardinality({l \in J : l < j}) = k - 1

\* the entries of arr at the indices J, in order
Restrict(arr, J) == [k \in 1..Cardinality(J) |-> arr[Kth(J, k)]]

\* the instances inside the window of candidate i (1-based) of the last query
InWindow(i) ==
    {j \in 1..Len(dq.args.tX) :
        dq.args.tX[j] >= dq.args.ty_cand[i] - config.w_train}

\* every array of the training data has one entry per row of X, and tX_cand
\* and ty_cand have one entry per row of X_cand
WellShaped(a) ==
    /\ Len(a.y) = Len(a.X)
    /\ Len(a.tX) = Len(a.X)
    /\ Len(a.ty) = Len(a.X)
    /\ Len(a.acquisitions) = Len(a.X)
    /\ a.sample_weight.given => Len(a.sample_weight.w) = Len(a.X)
    /\ Len(a.tX_cand) = Len(a.X_cand)
    /\ Len(a.ty_cand) = Len(a.X_cand)

\* a query on well-shaped arguments has returned
ForgettingQueryDone ==
    /\ config.wrapper = "ForgettingWrapper"
    /\ dq.pc = "done"
    /\ dq.op = "query"
    /\ WellShaped(dq.args)
    /\ dq.raised = "none"

\* C3: the state of the wrapped base strategy after query(simulate=False)
\* equals its state after query(simulate=True) on the same input followed by
\* update(X_cand, sampled) with the decisions that query returned.
C3_CommitEqualsSimulateThenUpdate ==
    (ForgettingQueryDone /\ ~dq.args.simulate) =>
        LET simulated ==
                forgetting_query(dq.before.observed_instances,
                                 dq.before.sampled_instances, budget,
                                 config.w_train,
                                 [dq.args EXCEPT !.simulate = TRUE])
            sampled == indicator(Len(dq.args.X_cand),
                                 simulated.sampled_indices)
            updated == base_update(simulated.observed, simulated.sampled_n,
                                   sampled)
        IN /\ observed_instances = updated.observed
           /\ sampled_instances = updated.sampled_n

\* C7: for every candidate i the training view handed to the base strategy
\* holds exactly the instances with tX >= ty_cand[i] - w_train, and features,
\* labels, tX, ty, acquisition flags and sample weights are all restricted
\* to those instances.
C7_ViewIsExactlyTheWindow ==
    ForgettingQueryDone =>
        /\ Len(dq.calls) = Len(dq.args.X_cand)
        /\ \A i \in 1..Len(dq.calls) :
              LET c == dq.calls[i]
                  J == InWindow(i)
              IN /\ c.X = Restrict(dq.args.X, J)
                 /\ c.y = Restrict(dq.args.y, J)
                 /\ c.tX = Restrict(dq.args.tX, J)
                 /\ c.ty = Restrict(dq.args.ty, J)
                 /\ c.acquisitions = Restrict(dq.args.acquisitions, J)
                 /\ c.sample_weight.given = dq.args.sample_weight.given
                 /\ dq.args.sample_weight.given =>
                        c.sample_weight.w = Restrict(dq.args.sample_weight.w, J)

\* a query with sample weights has returned in which the window of some
\* candidate keeps one instance, one that lies exactly on the window's edge,
\* and drops another
C7_Witness ==
    /\ ForgettingQueryDone
    /\ dq.args.sample_weight.given
    /\ \E i \in 1..Len(dq.calls) :
          /\ InWindow(i) # {}
          /\ InWindow(i) # 1..Len(dq.args.tX)
          /\ \E j \in InWindow(i) :
                dq.args.tX[j] = dq.args.ty_cand[i] - config.w_train

\* C8: only instances whose labels have already arrived are passed to the
\* base strategy: no instance whose label arrival time ty lies after the
\* candidate's time is in the restricted training view.
C8_ViewHoldsOnlyArrivedLabels ==
    ForgettingQueryDone =>
        \A i \in 1..Len(dq.calls) :
            \A k \in 1..Len(dq.calls[i].ty) :
                dq.calls[i].ty[k] <= dq.calls[i].ty_cand

\* ------------------------------------------------------------------------
\* Claims about BaggingDelaySimulationWrapper
\* ------------------------------------------------------------------------
BaggingQueryDone ==
    /\ config.wrapper = "BaggingDelaySimulationWrapper"
    /\ dq.pc = "done"
    /\ dq.op = "query"
    /\ dq.raised = "none"

\* a candidate of the running or the last query has been scored
BaggingScored ==
    /\ config.wrapper = "BaggingDelaySimulationWrapper"
    /\ dq.pc \in {"loop", "done"}
    /\ dq.op = "query"
    /\ dq.pc = "done" => dq.raised = "none"
    /\ dq.cand.scored

\* the pending set B of candidate i (1-based) of the query
PendingSet(i) ==
    {j \in 1..Len(dq.args.X) :
        /\ dq.args.acquisitions[j]
        /\ dq.args.tX_cand[i] <= dq.args.ty[j]
        /\ dq.args.ty[j] < dq.args.ty_cand[i]}

\* C2: a query with simulate=True, made on a wrapper that has answered a
\* query before, leaves the budget manager's counters, the fitted classifier
\* clf_ and the random generator state equal to their values before the call.
C2_SimulateLeavesStateUnchanged ==
    (BaggingQueryDone /\ dq.args.simulate /\ dq.before.clf_.fitted) =>
        /\ observed_instances = dq.before.observed_instances
        /\ sampled_instances = dq.before.sampled_instances
        /\ base_query_strategy_ = dq.before.base_query_strategy_
        /\ clf_ = dq.before.clf_
        /\ random_state_ = dq.before.random_state_

\* C9: for a candidate whose pending set is empty the base strategy is
\* queried exactly once, on the unmodified X, y, tX, ty, acquisitions and
\* sample_weight, and the reported utility is the utility of that query.
C9_EmptyPendingQueriesBaseOnce ==
    (BaggingScored /\ PendingSet(dq.cand.i) = {}) =>
        LET i == dq.cand.i
            a == dq.args
            unmodified ==
                [X_cand |-> a.X_cand[i], X |-> a.X, y |-> a.y, tX |-> a.tX,
                 ty |-> a.ty, tX_cand |-> a.tX_cand[i],
                 ty_cand |-> a.ty_cand[i], acquisitions |-> a.acquisitions,
                 sample_weight |-> a.sample_weight, simulate |-> a.simulate]
        IN /\ Len(dq.cand.calls) = 1
           /\ dq.cand.calls[1].call = unmodified
           /\ dq.cand.utility = base_utility(unmodified)
           /\ dq.avg_utilities[i] = dq.cand.utility

\* a candidate without pending instances has been scored on weighted data
\* in which another instance is acquired, with a utility above zero
C9_Witness ==
    /\ BaggingScored
    /\ PendingSet(dq.cand.i) = {}
    /\ dq.args.sample_weight.given
    /\ \A j \in 1..Len(dq.args.X) : dq.args.acquisitions[j]
    /\ dq.cand.utility.n > 0

\* C10: for a candidate whose pending set is not empty the base strategy is
\* queried exactly K times, every time with simulate=True and with a label
\* drawn anew for every pending instance, and the reported utility is the
\* arithmetic mean of the K returned utilities.
C10_PendingQueriesBaseKTimes ==
    (BaggingScored /\ PendingSet(dq.cand.i) # {}) =>
        LET B == PendingSet(dq.cand.i)
            calls == dq.cand.calls
            returned == [q \in 1..Len(calls) |-> calls[q].utility.n]
        IN /\ Len(calls) = config.K
           /\ \A q \in 1..Len(calls) :
                 /\ calls[q].call.simulate
                 /\ calls[q].utility.d = Den
                 /\ \A j \in B : calls[q].call.y[j] \in Classes
                 /\ q > 1 =>
                      calls[q].drawn_at
                          = calls[q - 1].drawn_at + Cardinality(B)
           /\ dq.cand.utility.n * config.K * Den
                 = SumSeq(returned) * dq.cand.utility.d
           /\ dq.avg_utilities[dq.cand.i] = dq.cand.utility

\* a candidate with two pending instances has been scored with K = 2, the
\* two rounds drew different labels and returned different utilities
C10_Witness ==
    /\ BaggingScored
    /\ Cardinality(PendingSet(dq.cand.i)) = 2
    /\ config.K = 2
    /\ Len(dq.cand.calls) = 2
    /\ dq.cand.calls[1].call.y # dq.cand.calls[2].call.y
    /\ dq.cand.calls[1].utility # dq.cand.calls[2].utility
    /\ dq.cand.utility.n > 0

\* C11: the pending set of candidate i is exactly the instances with
\* acquisitions true and tX_cand[i] <= ty < ty_cand[i]; the simulation
\* branch is taken iff that set is not empty, so with acquisitions all false
\* every candidate takes the direct branch and no simulation round is run.
C11_SimulationIffPending ==
    /\ BaggingScored =>
          /\ dq.cand.map_B_n
                = [j \in 1..Len(dq.args.X) |-> j \in PendingSet(dq.cand.i)]
          /\ dq.cand.branch = "simulation" <=> PendingSet(dq.cand.i) # {}
          /\ (\A j \in 1..Len(dq.args.X) : ~dq.args.acquisitions[j])
                => dq.cand.branch = "direct"
    /\ (config.wrapper = "BaggingDelaySimulationWrapper"
        /\ dq.pc = "loop" /\ dq.k > 0) =>
          PendingSet(dq.i + 1) # {}

\* a query has scored one candidate in the simulation branch and then one,
\* with an instance whose label arrives exactly at ty_cand, in the direct one
C11_Witness ==
    /\ BaggingScored
    /\ dq.cand.i = 2
    /\ PendingSet(1) # {}
    /\ dq.cand.branch = "direct"
    /\ \E j \in 1..Len(dq.args.X) :
          /\ dq.args.acquisitions[j]
          /\ dq.args.ty[j] = dq.args.ty_cand[2]

\* C12: a query consults the budget manager (sample) exactly once, after all
\* candidates have been scored, on the vector of all candidates' utilities
\* and with simulate=True, whatever the simulate flag of the query is.
C12_BudgetManagerConsultedOnce ==
    /\ (config.wrapper = "BaggingDelaySimulationWrapper" /\ dq.pc = "loop")
          => dq.bm_samples = <<>>
    /\ BaggingQueryDone =>
          /\ Len(dq.bm_samples) = 1
          /\ dq.bm_samples[1].simulate
          /\ dq.bm_samples[1].utilities = dq.avg_utilities
          /\ Len(dq.bm_samples[1].utilities) = Len(dq.args.X_cand)
          /\ dq.cand.i = Len(dq.args.X_cand)

\* a query that is not simulated has returned after scoring two candidates,
\* one of them sampled
C12_Witness ==
    /\ BaggingQueryDone
    /\ ~dq.args.simulate
    /\ Len(dq.args.X_cand) = 2
    /\ Len(dq.sampled_indices) = 1

\* C13: the state of the base strategy is committed only by the update call
\* made after the sampling decision, and that call is made iff simulate is
\* False; no base query issued while the candidates are scored changes the
\* state of the base strategy.
C13_CommitOnlyThroughUpdate ==
    /\ (config.wrapper = "BaggingDelaySimulationWrapper" /\ dq.pc = "loop")
          => /\ observed_instances = dq.before.observed_instances
             /\ sampled_instances = dq.before.sampled_instances
    /\ BaggingQueryDone =>
          LET committed ==
                IF dq.args.simulate
                THEN [observed |-> dq.before.observed_instances,
                      sampled_n |-> dq.before.sampled_instances]
                ELSE base_update(dq.before.observed_instances,
                                 dq.before.sampled_instances, dq.sampled)
          IN /\ observed_instances = committed.observed
             /\ sampled_instances = committed.sampled_n

\* a query of a BaggingDelaySimulationWrapper has returned or raised
BaggingQueryEnded ==
    /\ config.wrapper = "BaggingDelaySimulationWrapper"
    /\ dq.pc = "done"
    /\ dq.op = "query"

\* C14: when K has a bad type or range the query raises before any data
\* processing and nothing is partially applied: no classifier is fitted,
\* clf_ and base_query_strategy_ are not created or replaced, the random
\* generator is not advanced and the base strategy is not queried.
C14_BadConfigurationLeavesNoTrace ==
    (BaggingQueryEnded
     /\ (config.K_type = "float" \/ (config.K_type = "int" /\ config.K <= 0)))
        => /\ dq.raised # "none"
           /\ base_query_strategy_ = dq.before.base_query_strategy_
           /\ clf_ = dq.before.clf_
           /\ random_state_ = dq.before.random_state_
           /\ observed_instances = dq.before.observed_instances
           /\ sampled_instances = dq.before.sampled_instances

\* C20: a query accepts K only if it is a positive integer; for every other
\* value of K (non-integer type, zero, negative, not set) it fails with an
\* error, whether or not a candidate has pending instances.
C20_OnlyPositiveIntegerK ==
    BaggingQueryEnded =>
        (dq.raised = "none" <=> (config.K_type = "int" /\ config.K > 0))

\* C15: a query raises during validation, before the base strategy is
\* queried, whenever the length of tX or ty differs from the number of rows
\* of X, or the length of tX_cand or ty_cand from the number of rows of
\* X_cand.
C15_LengthMismatchRaisesInValidation ==
    (config.wrapper = "ForgettingWrapper" /\ dq.pc = "done"
     /\ dq.op = "query"
     /\ \/ Len(dq.args.tX) # Len(dq.args.X)
        \/ Len(dq.args.ty) # Len(dq.args.X)
        \/ Len(dq.args.tX_cand) # Len(dq.args.X_cand)
        \/ Len(dq.args.ty_cand) # Len(dq.args.X_cand))
        => /\ dq.raised # "none"
           /\ ~dq.validated
           /\ dq.calls = <<>>

\* ------------------------------------------------------------------------
\* Claims about the rounds of Badge.query
\* ------------------------------------------------------------------------
\* the rounds of the running or the last query that have been made (1-based:
\* round r of the model is round r - 1 of the code)
BadgeRounds ==
    IF badge.pc \in {"loop", "done"} THEN 1..Len(badge.D_p) ELSE {}

\* the position among the unlabeled samples (1-based) of the sample selected
\* in round r
SelectedAt(r) ==
    CHOOSE j \in 1..Len(badge.unlbld_mapping) :
        badge.unlbld_mapping[j] = badge.query_indicies[r]

\* C16: _d_probability returns all ones, flagged randomized, when no point
\* has been chosen (the first round) or the squares sum to zero, and
\* otherwise non-negative entries that sum to 1, flagged not randomized; the
\* query draws from the entries of non-zero probability in the second mode
\* and from all points in the first.
C16_TwoModes ==
    \A r \in BadgeRounds :
        LET p == badge.D_p[r]
            n == Len(badge.g_x)
        IN /\ badge.randomized[r] <=> (r = 1 \/ SumSeq(badge.D2[r]) = 0)
           /\ badge.randomized[r] =>
                 /\ p = Ones(n)
                 /\ badge.drawn_from[r] = 0..(n - 1)
           /\ ~badge.randomized[r] =>
                 /\ p.den > 0
                 /\ \A j \in 1..n : p.num[j] >= 0
                 /\ SumSeq(p.num) = p.den
                 /\ badge.drawn_from[r] = {j \in 0..(n - 1) : p.num[j + 1] > 0}

\* a query has made a weighted round and, after it, a round that is
\* randomized because the squares sum to zero
C16_Witness ==
    /\ badge.pc = "done"
    /\ \E r, t \in BadgeRounds :
          /\ 1 < r
          /\ r < t
          /\ ~badge.randomized[r]
          /\ badge.randomized[t]

\* the distance (numerator over PDen) of the unlabeled sample at position j
\* to the nearest of the samples selected before round r
NearestSelected(r, j) ==
    min_distance(badge.g_x, [t \in 1..(r - 1) |-> SelectedAt(t) - 1], j)

\* C17: in every round after the first that is not randomized, the weight of
\* each unlabeled sample is proportional to its squared distance to the
\* nearest of all samples selected in the rounds before.
C17_WeightIsSquaredDistanceToNearest ==
    \A r \in BadgeRounds :
        (r > 1 /\ ~badge.randomized[r]) =>
            \A j, l \in 1..Len(badge.g_x) :
                badge.D_p[r].num[j] * NearestSelected(r, l) * NearestSelected(r, l)
                    = badge.D_p[r].num[l] * NearestSelected(r, j) * NearestSelected(r, j)

\* C18: row i of the utilities holds round i's probabilities at the unlabeled
\* samples, NaN at every labeled sample and at every sample selected in an
\* earlier round, and the sample selected in round i is not NaN in row i.
C18_UtilityRows ==
    \A r \in BadgeRounds :
        LET row == badge.utilities[r]
            earlier == {badge.query_indicies[t] : t \in 1..(r - 1)}
        IN /\ \A c \in 1..Len(badge.y) :
                 badge.y[c] = "labeled" => row[c] = NaN
           /\ \A idx \in earlier : row[idx + 1] = NaN
           /\ \A j \in 1..Len(badge.unlbld_mapping) :
                 badge.unlbld_mapping[j] \notin earlier =>
                     row[badge.unlbld_mapping[j] + 1]
                         = Rat(badge.D_p[r].num[j], badge.D_p[r].den)
           /\ row[badge.query_indicies[r] + 1] # NaN

\* a query with batch_size=2 on five samples, two of them labeled, has
\* returned
FivePointQueryDone ==
    /\ badge.pc = "done"
    /\ badge.y \in FivePointLabelVectors
    /\ badge.batch_size = 2

\* the first round gives the three unlabeled samples the same probability;
\* the second gives the sample selected in the first probability zero and
\* the two others a probability above zero
UniformThenAwayFromSelected ==
    /\ \A j, l \in 1..3 : badge.D_p[1].num[j] = badge.D_p[1].num[l]
    /\ \A j \in 1..3 :
          badge.D_p[2].num[j] = 0 <=> j = SelectedAt(1)

\* C19 as stated: for batch_size=2 on any five samples with one labeled
\* sample per class, the round-0 probability is the same for the 3 unlabeled
\* samples and the round-1 probability is zero for the sample selected in
\* round 0 and non-zero for the two others.
C19_AnyFivePoints ==
    FivePointQueryDone => UniformThenAwayFromSelected

\* C19, amended: the same, for five samples whose three unlabeled samples
\* have pairwise different gradient embeddings.
C19_FivePointsWithDistinctEmbeddings ==
    (FivePointQueryDone
     /\ \A j, l \in 1..3 : j # l => badge.g_x[j] # badge.g_x[l])
        => UniformThenAwayFromSelected

\* such a query has returned, on embeddings that are pairwise different
C19_Witness ==
    /\ FivePointQueryDone
    /\ \A j, l \in 1..3 : j # l => badge.g_x[j] # badge.g_x[l]
    /\ badge.randomized = <<TRUE, FALSE>>

\* ------------------------------------------------------------------------
\* Claims about the parameters of ForgettingWrapper
\* ------------------------------------------------------------------------
\* w_train is a non-negative number
WTrainIsNonNegativeNumber ==
    /\ config.w_type \in {"int", "float"}
    /\ config.w_train >= 0

\* a query of ForgettingWrapper has ended, by a return or by an error
ForgettingQueryEnded ==
    /\ config.wrapper = "ForgettingWrapper"
    /\ dq.pc = "done"
    /\ dq.op = "query"

\* C21: when w_train is not a non-negative number (negative, not numeric or
\* not set), the query fails with an error raised by validation, before the
\* base strategy is queried for any candidate.
C21_OnlyNonNegativeWTrain ==
    (ForgettingQueryEnded /\ ~WTrainIsNonNegativeNumber) =>
        /\ dq.raised # "none"
        /\ ~dq.validated
        /\ dq.calls = <<>>

C23_NoDependenceOnLaterCandidates ==
    (twin.pc = "done" /\ twin.op = "query") =>
        \A i \in 1..Len(twin.cut) :
            /\ twin.returned[1].utilities[i] = twin.cut[i].utilities[i]
            /\ (i - 1) \in Range(twin.returned[1].sampled_indices)
                  <=> (i - 1) \in Range(twin.cut[i].sampled_indices)

\* ------------------------------------------------------------------------
\* Claims about FuzzyDelaySimulationWrapper
\* ------------------------------------------------------------------------
\* a query that returned
FuzzyQueryDone == dq.pc = "done" /\ dq.op = "query" /\ dq.raised = "none"

\* the candidates (1-based) of the last query that have pending instances
WithPending == {i \in 1..Len(dq.calls) : count(pending_map(dq.args, i)) > 0}

\* the weights call i gives the rows it added for its r-th pending instance,
\* one per class: what get_class_probabilities returned for the instance
PseudoWeights(i, r) ==
    [c \in Classes |->
        dq.calls[i].sample_weight.w[Len(dq.args.X)
                                    + (r - 1) * Cardinality(Classes) + c + 1]]

\* p is a distribution over the classes: each entry a number that is not
\* negative, the entries summing to 1
IsDistribution(p) ==
    /\ \A c \in Classes : p[c].d > 0 /\ p[c].n >= 0
    /\ p[0].n * p[1].d + p[1].n * p[0].d = p[0].d * p[1].d

\* C24: for every pending instance and every accepted delay_prior >= 0,
\* get_class_probabilities returns a distribution over the classes (entries
\* not negative, summing to 1), also when the frequencies are all zero: no
\* division by zero, no undefined value.
C24_ProbabilitiesAreADistribution ==
    FuzzyQueryDone =>
        \A i \in WithPending :
            \A r \in 1..count(pending_map(dq.args, i)) :
                IsDistribution(PseudoWeights(i, r))

\* the pending instances (0-based) of candidate i of the last query
PendingOf(i) == Where(pending_map(dq.args, i), 1)

\* the weight the query's caller gave training instance j, 1 when none
GivenWeight(j) ==
    IF dq.args.sample_weight.given THEN dq.args.sample_weight.w[j] ELSE 1

\* frequency + delay_prior per class, from the labels and weights of the
\* query's training data
WithPrior ==
    [c \in Classes |->
        SumSeq([j \in 1..Len(dq.args.y) |->
                   IF dq.args.y[j] = c THEN GivenWeight(j) ELSE 0])
        * config.delay_prior.d + config.delay_prior.n]

\* call i starts with the original rows, each with its given weight
OriginalRowsKept(i) ==
    \A j \in 1..Len(dq.args.X) :
        /\ dq.calls[i].X[j] = dq.args.X[j]
        /\ dq.calls[i].y[j] = dq.args.y[j]
        /\ dq.calls[i].tX[j] = dq.args.tX[j]
        /\ dq.calls[i].ty[j] = dq.args.ty[j]
        /\ dq.calls[i].sample_weight.w[j] = Rat(GivenWeight(j), 1)

\* call i ends with one row per pending instance and class: the instance's
\* features and tX, the class as label, a weight in proportion to
\* frequency + delay_prior
PseudoRowsAdded(i) ==
    /\ Len(dq.calls[i].X)
          = Len(dq.args.X) + Len(PendingOf(i)) * Cardinality(Classes)
    /\ \A f \in {"y", "tX", "ty"} :
          Len(dq.calls[i][f]) = Len(dq.calls[i].X)
    /\ Len(dq.calls[i].sample_weight.w) = Len(dq.calls[i].X)
    /\ \A r \in 1..Len(PendingOf(i)) : \A c \in Classes :
          /\ dq.calls[i].X[Len(dq.args.X) + (r - 1) * Cardinality(Classes)
                           + c + 1]
                = dq.args.X[PendingOf(i)[r] + 1]
          /\ dq.calls[i].tX[Len(dq.args.X) + (r - 1) * Cardinality(Classes)
                            + c + 1]
                = dq.args.tX[PendingOf(i)[r] + 1]
          /\ dq.calls[i].y[Len(dq.args.X) + (r - 1) * Cardinality(Classes)
                           + c + 1] = c
          /\ PseudoWeights(i, r)[c].n * WithPrior[1 - c]
                = PseudoWeights(i, r)[1 - c].n * WithPrior[c]

\* the base strategy is queried once per candidate, and for a candidate
\* with pending instances on the original rows followed by the pseudo-rows
OneSoftQueryPerCandidate ==
    /\ Len(dq.calls) = Len(dq.args.X_cand)
    /\ \A i \in WithPending : OriginalRowsKept(i) /\ PseudoRowsAdded(i)

C26_CommittedIsReturned ==
    (FuzzyQueryDone /\ ~dq.args.simulate) =>
        dq.updates = <<indicator(Len(dq.args.X_cand), dq.sampled_indices)>>

\* in the query's training data no label arrives before its instance
InputLabelsAfterFeatures ==
    \A j \in 1..Len(dq.args.X) : dq.args.ty[j] >= dq.args.tX[j]

\* in the training set of the call c no label arrives before its instance
LabelsAfterFeatures(c) == \A k \in 1..Len(c.X) : c.ty[k] >= c.tX[k]

\* the training sets made for candidate i: the one of the fuzzy wrapper and
\* those of the simulation rounds of the bagging wrapper on the same input
HypotheticalSets(i) ==
    {dq.calls[i]}
    \cup {simulated_call(dq.args, i, pending_map(dq.args, i), y_B_n) :
             y_B_n \in [1..Len(PendingOf(i)) -> Classes]}

\* the pending instances of candidate i arrived no later than the candidate
PendingArrivedBefore(i) ==
    \A r \in 1..Len(PendingOf(i)) :
        dq.args.tX[PendingOf(i)[r] + 1] <= dq.args.tX_cand[i]

\* C27 as stated: when ty >= tX for every instance of the input, ty >= tX
\* for every row of every hypothetical training set handed to the base
\* strategy.
C27_SimulatedLabelNotBeforeFeatures ==
    (FuzzyQueryDone /\ InputLabelsAfterFeatures) =>
        \A i \in 1..Len(dq.calls) : \A c \in HypotheticalSets(i) :
            LabelsAfterFeatures(c)

\* C27, amended: the same for every candidate whose pending instances
\* arrived no later than the candidate itself (tX <= tX_cand).
C27_SimulatedLabelNotBeforeFeaturesInOrder ==
    (FuzzyQueryDone /\ InputLabelsAfterFeatures) =>
        \A i \in 1..Len(dq.calls) :
            PendingArrivedBefore(i) =>
                \A c \in HypotheticalSets(i) : LabelsAfterFeatures(c)

C27_Witness ==
    /\ FuzzyQueryDone
    /\ InputLabelsAfterFeatures
    /\ \E i \in WithPending :
          /\ PendingArrivedBefore(i)
          /\ Len(PendingOf(i)) = 1
          /\ dq.calls[i].ty[Len(dq.calls[i].X)]
                < dq.args.ty[PendingOf(i)[1] + 1]

\* ------------------------------------------------------------------------
\* Claims about the delay wrappers, continued
\* ------------------------------------------------------------------------
\* the call c was given the query's X, tX, acquisitions and sample_weight,
\* and the query's y and ty outside the set B
OnlyPendingChanged(c, B) ==
    /\ c.X = dq.args.X
    /\ c.tX = dq.args.tX
    /\ c.acquisitions = dq.args.acquisitions
    /\ c.sample_weight = dq.args.sample_weight
    /\ Len(c.y) = Len(dq.args.y)
    /\ Len(c.ty) = Len(dq.args.ty)
    /\ \A j \in 1..Len(dq.args.X) :
          j \notin B => c.y[j] = dq.args.y[j] /\ c.ty[j] = dq.args.ty[j]

\* C28: in every simulation round the labels and label-arrival times handed
\* to the base strategy differ from the query's y and ty at pending
\* positions only, and X, tX, acquisitions and sample_weight are the
\* query's: every round of every candidate starts from the original input.
C28_RoundsChangeOnlyPending ==
    (BaggingScored /\ PendingSet(dq.cand.i) # {}) =>
        \A q \in 1..Len(dq.cand.calls) :
            OnlyPendingChanged(dq.cand.calls[q].call, PendingSet(dq.cand.i))

\* the second candidate has been scored in a round, after a first candidate
\* scored in rounds as well; an instance is pending and got a label other
\* than the query's, another one is not pending
C28_Witness ==
    /\ BaggingScored
    /\ dq.cand.i = 2
    /\ PendingSet(1) # {}
    /\ Len(dq.cand.calls) >= 1
    /\ dq.args.sample_weight.given
    /\ \E j \in PendingSet(2) : dq.cand.calls[1].call.y[j] # dq.args.y[j]
    /\ \E j \in 1..Len(dq.args.X) : j \notin PendingSet(2)

\* a call of the fuzzy wrapper has ended
FuzzyCallDone == config.wrapper = "FuzzyDelaySimulationWrapper" /\ dq.pc = "done"

\* the candidates the call that has ended committed to the base strategy
Committed ==
    IF dq.op = "update" THEN dq.sampled
    ELSE IF dq.raised = "none" /\ ~dq.args.simulate THEN dq.updates[1]
    ELSE <<>>

\* C29: base_query_strategy_ is made at most once per wrapper, by the first
\* query or update; every later call works on the strategy the call before
\* it left, so the counters of its budget manager start where that call
\* left them and are never reset.
C29_BaseStrategyMadeOnce ==
    /\ base_query_strategy_ <=> dq.made = 1
    /\ dq.made <= 1
    /\ FuzzyCallDone =>
          /\ base_query_strategy_
          /\ observed_instances
                = dq.before.observed_instances + Len(Committed)
          /\ sampled_instances
                = dq.before.sampled_instances + SumSeq(Committed)

\* a call on a wrapper whose base strategy has counted candidates before
C29_Witness ==
    /\ FuzzyCallDone
    /\ dq.before.base_query_strategy_
    /\ dq.before.sampled_instances > 0
    /\ sampled_instances > dq.before.sampled_instances

\* C30: every query of the base strategy is given the acquisition flags
\* under the argument `acquisitions`, one flag per training row of the call.
C30_FlagsUnderAcquisitions ==
    FuzzyQueryDone =>
        \A i \in 1..Len(dq.calls) :
            /\ "acquisitions" \in DOMAIN dq.calls[i]
            /\ Len(dq.calls[i].acquisitions) = Len(dq.calls[i].X)
====
